---- MODULE Spec2Model ----
(***************************************************************************)
(* MailBeacon: the SMTP verifier (app/core/smtp_utils.py) and the          *)
(* discovery orchestrator (app/core/beacon.py).                            *)
(*                                                                         *)
(* Text that the code takes apart (addresses, names, domains) is a         *)
(* sequence of one-character strings, so that lower(), split('@'),         *)
(* endswith() and the `in` substring test are computed as Python computes  *)
(* them.  Text that the code only passes on (log and verdict messages) is  *)
(* a TLA+ string holding the constant part of the Python f-string.         *)
(***************************************************************************)
EXTENDS Integers, Sequences, FiniteSets, TLC

VARIABLES
    \* ---- SmtpVerifier.verify_email_with_retries (one call) ----
    vpc,              \* position of the call: idle, start, attempt, sleep, returned, raised
    email,            \* the address being verified
    mail_server,      \* local mail_server: "unset", "None" or "MailServer"
    attempt,          \* loop variable of `for attempt in range(...)`
    last_result,      \* "True", "False" or "None" (Optional[bool])
    last_message,
    is_catch_all,
    ret,              \* what the call handed to its caller
    smtp_log,         \* commands put on the wire by the latest attempt, with the replies
    answers,          \* what the server and the network answered in the latest attempt
    attempt_result,   \* what the latest _verify_single_attempt returned (or raised)
    events,           \* history of the call: dns, connect, attempt, sleep
    \* ---- MailBeacon.find_email (one call) ----
    pc,               \* idle, start, scrape, loop, sleep, done
    contact,          \* arguments first_name, last_name, domain
    generated_patterns,
    scraped_emails,
    all_candidates,
    idx,              \* position of `for email in all_candidates`
    verified_emails_data,
    results,          \* the EmailResult being filled
    probed,           \* history: addresses handed to verify_email_with_retries
    dns_resolved,     \* history: some verification resolved a mail server
    verification_messages, \* the values of results.verification_log, by candidate
    \* ---- the ranking of step 5, on its own ----
    survivors,        \* verified_emails_data before the sort
    raised,           \* index of the record whose confidence was raised (0: none yet)
    ranking_before,   \* the sorted list for survivors
    ranking_after,    \* the sorted list with one confidence raised
    \* ---- the scoring of one candidate (loop body of step 4), on its own ----
    score_pc,         \* idle, flags, skipped, checked, base, penalized, final, recorded
    flags,            \* is_pattern, is_scraped, is_generic, matches_primary_domain, name_in_email
    c_base,           \* base_confidence after "Initial Confidence Scoring"
    c_penalized,      \* confidence before SMTP (after the generic penalty)
    c_final,          \* final_confidence, after verification and clamp
    emitted,          \* a FoundEmailData was appended for the candidate
    smtp_outcome,     \* how the candidate's verify_email_with_retries ended (if called)
    \* ---- find_single_email and process_record (one request) ----
    rec_pc,           \* idle, start, discover, returned, responded
    contact_input,    \* the SingleContactRequest
    dns_exists,       \* environment: the domain exists in DNS
    validated,        \* names, domain and URL after lines 41-72 (or the exception)
    discovery,        \* history: how the call of find_email ended
    rec_return,       \* what process_record handed to its caller
    http_response,    \* the HTTP response of find-single
    \* ---- find_emails_batch (one request) ----
    batch_pc,         \* idle, start, gather, gathered, responded
    request,          \* request.contacts
    tasks,            \* per contact: the task of its process_record
    final_results,
    batch_response,   \* the list the endpoint returns
    \* ---- the processing of one contact as a task that its caller may cancel ----
    task_pc,          \* idle, the await the task is suspended at, returned, cancelled
    candidate_no,     \* position of the loop over the candidates
    attempt_no,       \* position of the retry loop
    pending_exc,      \* exception in flight while a finally clause runs
    cancel_requested, \* the caller has cancelled the task
    ops_after_cancel, \* network operations started after the cancellation
    task_outcome,     \* how the task ended: a result, or the exception that left it
    \* ---- Settings() (one construction) ----
    cfg_pc,           \* idle, fields, toml, validated
    values,           \* the dict the root validator works on
    toml_settings,    \* _parse_toml_config(loaded_toml_config)
    \* ---- ProcessingResult(email_discovery_results=...) (one construction) ----
    env_pc,           \* idle, select, envelope, done
    configured_max_alternatives,   \* settings.max_alternatives
    discovery_results,             \* the EmailResult handed to the envelope
    envelope,         \* the convenience fields
    \* ---- concurrent discoveries, each at one of its awaits ----
    discoveries,      \* per discovery: position, open SMTP dialogs, adjusted candidates
    \* ---- Scraper.scrape_website_for_emails (one call) ----
    scr_pc,           \* idle, loop, returned, raised
    urls_to_visit,    \* the visit set, in the order the for statement iterates it
    url_no,           \* position of `for page_url in urls_to_visit`
    fetch_log,        \* URLs handed to _fetch_page, in order
    all_found_emails,
    successful_pages,
    failed_pages,
    scrape_return,    \* the list returned, or the exception that left the call
    \* ---- resolve_mail_server (one call) ----
    dns_pc,           \* idle, mx, a, returned, raised
    mx_answer,        \* what the resolver answers to the MX query
    a_answer,         \* what it answers to the A query
    dns_queries,      \* the queries made, in order
    dns_return        \* the MailServer returned, or the exception raised

verifier_vars == <<vpc, email, mail_server, attempt, last_result, last_message,
                   is_catch_all, ret, smtp_log, answers, attempt_result, events>>
beacon_vars == <<pc, contact, generated_patterns, scraped_emails, all_candidates,
                 idx, verified_emails_data, results, probed, dns_resolved,
                 verification_messages>>
rank_vars == <<survivors, raised, ranking_before, ranking_after>>
\* What verify_email_with_retries and find_email leave alone.
score_vars == <<score_pc, flags, c_base, c_penalized, c_final, emitted, smtp_outcome>>
record_vars == <<rec_pc, contact_input, dns_exists, validated, discovery, rec_return,
                 http_response>>
batch_vars == <<batch_pc, request, tasks, final_results, batch_response>>
cancel_vars == <<task_pc, candidate_no, attempt_no, pending_exc, cancel_requested,
                 ops_after_cancel, task_outcome>>
settings_vars == <<cfg_pc, values, toml_settings>>
envelope_vars == <<env_pc, configured_max_alternatives, discovery_results, envelope>>
dialog_vars == <<discoveries>>
scraper_vars == <<scr_pc, urls_to_visit, url_no, fetch_log, all_found_emails,
                  successful_pages, failed_pages, scrape_return>>
dns_vars == <<dns_pc, mx_answer, a_answer, dns_queries, dns_return>>
extra_vars == <<dialog_vars, scraper_vars, dns_vars>>
more_vars == <<cancel_vars, settings_vars, envelope_vars, extra_vars>>
rest_vars == <<rank_vars, score_vars, record_vars, batch_vars, more_vars>>
vars == <<verifier_vars, beacon_vars, rest_vars>>

(***************************************************************************)
(* Text                                                                    *)
(***************************************************************************)

\* Code points of the characters the model uses (Python compares str by code point).
Ord(c) ==
    CASE c = "-" -> 45 [] c = "." -> 46 [] c = "@" -> 64 [] c = "X" -> 88
      [] c = "_" -> 95 [] c = "a" -> 97 [] c = "c" -> 99 [] c = "i" -> 105
      [] c = "o" -> 111 [] c = "x" -> 120 [] c = "y" -> 121

Chars == {"-", ".", "@", "X", "_", "a", "c", "i", "o", "x", "y"}
Letters == {"X", "a", "c", "i", "o", "x", "y"}

\* str.lower() on one character, then on a string.
LowerChar(c) == IF c = "X" THEN "x" ELSE c
Lower(s) == [i \in 1..Len(s) |-> LowerChar(s[i])]

\* Python `sub in s`.
Contains(sub, s) ==
    \E i \in 0..(Len(s) - Len(sub)) : SubSeq(s, i + 1, i + Len(sub)) = sub

\* s.endswith(suf)
EndsWith(s, suf) ==
    /\ Len(suf) <= Len(s)
    /\ SubSeq(s, Len(s) - Len(suf) + 1, Len(s)) = suf

\* Positions of '@' in s.
AtPositions(s) == {i \in 1..Len(s) : s[i] = "@"}
Min(S) == CHOOSE m \in S : \A n \in S : m <= n
Max(S) == CHOOSE m \in S : \A n \in S : m >= n

\* s.split('@')[0], s.split('@')[-1] and s.split('@', 1)[1]
SplitFirst(s) == IF AtPositions(s) = {} THEN s ELSE SubSeq(s, 1, Min(AtPositions(s)) - 1)
SplitLast(s) == IF AtPositions(s) = {} THEN s ELSE SubSeq(s, Max(AtPositions(s)) + 1, Len(s))
SplitRest(s) == SubSeq(s, Min(AtPositions(s)) + 1, Len(s))

\* Python's < on str: lexicographic by code point, a proper prefix first.
RECURSIVE StrLess(_, _)
StrLess(s, t) ==
    IF s = <<>> THEN t # <<>>
    ELSE IF t = <<>> THEN FALSE
    ELSE IF s[1] = t[1] THEN StrLess(Tail(s), Tail(t))
    ELSE Ord(s[1]) < Ord(t[1])

\* sorted(set): the elements of a set of strings in ascending order.
RECURSIVE SortedList(_)
SortedList(S) ==
    IF S = {} THEN <<>>
    ELSE LET m == CHOOSE x \in S : \A y \in S \ {x} : StrLess(x, y)
         IN <<m>> \o SortedList(S \ {m})

SeqToSet(s) == {s[i] : i \in 1..Len(s)}

(***************************************************************************)
(* Settings (app/config.py): the defaults, and small values for the sets   *)
(***************************************************************************)

max_verification_attempts == 2
confidence_threshold == 4
generic_confidence_threshold == 7

\* Settings.generic_email_prefixes: role local parts ("info", ...), here "i" and "aa".
generic_email_prefixes == {<<"i">>, <<"a", "a">>}

(***************************************************************************)
(* What the mail server and the network can answer                         *)
(***************************************************************************)

\* A reply (code, msg) returned by an aiosmtplib call, or the exception it raised.
Reply(code, msg) == [exc |-> "none", code |-> code, msg |-> msg]
Raise(exc, code, msg) == [exc |-> exc, code |-> code, msg |-> msg]
NotCalled == [exc |-> "na", code |-> 0, msg |-> ""]

\* `phrase in msg.lower()` for the reply texts of the model.
LowerHas(msg, phrase) ==
    <<msg, phrase>> \in {
        <<"User unknown", "unknown">>, <<"User unknown", "user unknown">>,
        <<"Must issue a STARTTLS command first", "starttls">>,
        <<"5.7.0 Authentication required", "5.7.0">>,
        <<"Connection timed out", "timed out">>,
        <<"Connection refused", "connection refused">> }

ConnectOutcomes ==
    { Raise("SMTPConnectError", 0, "Connection timed out"),
      Raise("SMTPConnectError", 0, "Connection refused"),
      Raise("SMTPConnectError", 0, "Network unreachable"),
      Raise("TimeoutError", 0, ""), Raise("OSError", 0, ""), Raise("Exception", 0, "") }
EhloErrors ==
    { Raise("SMTPHeloError", 501, "Syntax error"), Raise("TimeoutError", 0, ""),
      Raise("OSError", 0, ""), Raise("Exception", 0, "") }
CommandErrors ==
    { Raise("SMTPResponseException", 250, "OK"),
      Raise("SMTPResponseException", 450, "Greylisted"),
      Raise("SMTPResponseException", 550, "User unknown"),
      Raise("TimeoutError", 0, ""), Raise("OSError", 0, ""), Raise("Exception", 0, "") }
MailRefusals ==
    { Reply(451, "Try again later"),
      Reply(530, "Must issue a STARTTLS command first"),
      Reply(530, "5.7.0 Authentication required"),
      Reply(550, "Policy violation") }
RcptAccepts == { Reply(250, "OK"), Reply(354, "Go ahead") }
RcptRefusals ==
    { Reply(450, "Greylisted"), Reply(550, "User unknown"), Reply(554, "User unknown"),
      Reply(554, "Policy violation") }
SampleOutcomes ==
    { Reply(250, "OK"), Reply(354, "Go ahead"), Reply(450, "Greylisted"),
      Reply(550, "User unknown"),
      Raise("SMTPResponseException", 550, "User unknown"),
      Raise("TimeoutError", 0, "") }
\* smtp_client.is_connected when the finally clause runs, and what quit() does.
Endings ==
    { [is_connected |-> FALSE, quit |-> "na"] }
    \cup { [is_connected |-> TRUE, quit |-> q] : q \in {"ok", "TimeoutError", "Exception"} }

\* One attempt's worth of answers.  A call the dialog never reaches is NotCalled.
Script(parse, connect, ehlo, mail, rcpt, sample, ending) ==
    [parse |-> parse, connect |-> connect, ehlo |-> ehlo, mail |-> mail,
     rcpt |-> rcpt, sample |-> sample,
     is_connected |-> ending.is_connected, quit |-> ending.quit]
Unconnected == [is_connected |-> FALSE, quit |-> "na"]
Ok == Reply(250, "OK")
\* Before the first attempt.
NoAnswers == Script("na", NotCalled, NotCalled, NotCalled, NotCalled, NotCalled, Unconnected)

Scripts ==
    { Script("ValueError", NotCalled, NotCalled, NotCalled, NotCalled, NotCalled, Unconnected) }
    \cup { Script("ok", c, NotCalled, NotCalled, NotCalled, NotCalled, Unconnected) :
             c \in ConnectOutcomes }
    \cup { Script("ok", Ok, e, NotCalled, NotCalled, NotCalled, z) :
             e \in EhloErrors, z \in Endings }
    \cup { Script("ok", Ok, Ok, m, NotCalled, NotCalled, z) :
             m \in MailRefusals \cup CommandErrors, z \in Endings }
    \cup { Script("ok", Ok, Ok, Ok, r, NotCalled, z) :
             r \in RcptRefusals \cup CommandErrors, z \in Endings }
    \cup { Script("ok", Ok, Ok, Ok, r, x, z) :
             r \in RcptAccepts, x \in SampleOutcomes, z \in Endings }

\* resolve_mail_server: a MailServer, or one of the errors of app/exceptions.py.
DnsErrors == {"NxDomainError", "NoDnsRecordsError", "DnsTimeoutError", "DnsError"}
DnsOutcomes == {"MailServer"} \cup DnsErrors

\* The exception classes of app/exceptions.py that are raised, with their bases;
\* asyncio.CancelledError derives from BaseException; every other class the model names
\* derives from Exception only.
Bases(cls) ==
    CASE cls = "CancelledError" -> {cls, "BaseException"}
      [] cls \in {"NxDomainError", "NoDnsRecordsError", "DnsTimeoutError"}
           -> {cls, "DnsError", "EmailSleuthError", "Exception"}
      [] cls = "DnsError" -> {cls, "EmailSleuthError", "Exception"}
      [] cls \in {"SmtpError", "InsufficientInputError", "DomainExtractionError",
                  "UrlParseError"}
           -> {cls, "EmailSleuthError", "Exception"}
      [] cls = "EmailSleuthError" -> {cls, "Exception"}
      [] OTHER -> {cls, "Exception"}

(***************************************************************************)
(* SmtpVerifier._verify_single_attempt                                     *)
(***************************************************************************)

\* SmtpVerificationResultInternal and its three constructors.
conclusive(exists, message, catch_all) ==
    [exists |-> exists, message |-> message, should_retry |-> FALSE,
     is_catch_all |-> catch_all, raised |-> "none"]
inconclusive_retry(message, catch_all) ==
    [exists |-> "None", message |-> message, should_retry |-> TRUE,
     is_catch_all |-> catch_all, raised |-> "none"]
inconclusive_no_retry(message, catch_all) ==
    [exists |-> "None", message |-> message, should_retry |-> FALSE,
     is_catch_all |-> catch_all, raised |-> "none"]
\* `raise SmtpError(...)`: no result object.
raise_SmtpError ==
    [exists |-> "None", message |-> "Unexpected SMTP error", should_retry |-> FALSE,
     is_catch_all |-> FALSE, raised |-> "SmtpError"]

\* Before the first attempt.
NoAttempt ==
    [exists |-> "None", message |-> "", should_retry |-> FALSE, is_catch_all |-> FALSE,
     raised |-> "na"]

\* The except clauses of the attempt, in their order.
HandleException(e) ==
    IF e.exc = "SMTPConnectError"
    THEN IF LowerHas(e.msg, "timed out") \/ LowerHas(e.msg, "connection refused")
         THEN inconclusive_no_retry("Connection failed (likely blocked)", FALSE)
         ELSE inconclusive_retry("Connection failed", FALSE)
    ELSE IF e.exc = "SMTPHeloError"
    THEN inconclusive_retry("HELO/EHLO failed", FALSE)
    ELSE IF e.exc = "SMTPResponseException"
    THEN IF 400 <= e.code /\ e.code < 500
         THEN inconclusive_retry("SMTP Temp Failure (4xx)", FALSE)
         ELSE IF e.code >= 500
         THEN inconclusive_retry("SMTP Perm Failure? (5xx)", FALSE)
         ELSE inconclusive_retry("SMTP Response Error", FALSE)
    ELSE IF e.exc = "TimeoutError"
    THEN inconclusive_retry("SMTP operation timed out", FALSE)
    ELSE IF e.exc = "OSError"
    THEN inconclusive_retry("Socket error", FALSE)
    ELSE raise_SmtpError

\* A MAIL FROM refusal that is never retried.
MailFromRejected_NeverRetried(code, msg) ==
    inconclusive_no_retry("MAIL FROM rejected", FALSE)

\* MAIL FROM answered with code >= 400.
MailFromRejected(code, msg) ==
    IF LowerHas(msg, "starttls") \/ (code = 530 /\ LowerHas(msg, "5.7.0"))
    THEN inconclusive_retry("Server requires STARTTLS", FALSE)
    ELSE inconclusive_no_retry("MAIL FROM rejected", FALSE)

\* The catch-all sample: is_catch_all after the inner try.
CatchAllDetected(sample) == sample.exc = "none" /\ sample.code < 400

rejection_phrases ==
    { "unknown", "no such", "unavailable", "rejected", "doesn't exist", "disabled",
      "invalid address", "recipient not found", "user unknown", "mailbox unavailable",
      "no mailbox" }

\* "Interpret RCPT TO result".
InterpretRcpt(target_code, target_msg, catch_all) ==
    IF target_code < 300
    THEN IF catch_all
         THEN inconclusive_retry("SMTP accepted (Possible Catch-All)", TRUE)
         ELSE conclusive("True", "SMTP Verification OK", FALSE)
    ELSE IF 300 <= target_code /\ target_code < 400
    THEN inconclusive_retry("SMTP Unexpected Intermediate Code", FALSE)
    ELSE IF 400 <= target_code /\ target_code < 500
    THEN inconclusive_retry("SMTP Temp Failure/Greylisted? (4xx)", FALSE)
    ELSE IF target_code \in {550, 551, 553}
            \/ \E p \in rejection_phrases : LowerHas(target_msg, p)
    THEN conclusive("False", "SMTP Rejected (User Likely Unknown)", FALSE)
    ELSE conclusive("False", "SMTP Rejected (Policy/Other 5xx)", FALSE)

\* The result of the try block for the answers s.
AttemptVerdict(s) ==
    IF s.parse = "ValueError" THEN conclusive("False", "Invalid email format", FALSE)
    ELSE IF s.connect.exc # "none" THEN HandleException(s.connect)
    ELSE IF s.ehlo.exc # "none" THEN HandleException(s.ehlo)
    ELSE IF s.mail.exc # "none" THEN HandleException(s.mail)
    ELSE IF s.mail.code >= 400 THEN MailFromRejected(s.mail.code, s.mail.msg)
    ELSE IF s.rcpt.exc # "none" THEN HandleException(s.rcpt)
    ELSE InterpretRcpt(s.rcpt.code, s.rcpt.msg,
                       s.rcpt.code < 400 /\ CatchAllDetected(s.sample))

\* One command on the wire: what was sent, to whom (RCPT), and the reply code
\* (0 when the call raised).
Cmd(verb, to, reply) == [cmd |-> verb, to |-> to, code |-> reply.code, exc |-> reply.exc]

\* A dialog that goes on to DATA before it quits.
QuitIfConnected_SendsData(s) ==
    IF s.is_connected
    THEN <<Cmd("DATA", "", Raise(s.quit, 0, "")), Cmd("QUIT", "", Raise(s.quit, 0, ""))>>
    ELSE <<>>

\* The finally clause: QUIT when the client is still connected.
QuitIfConnected(s) ==
    IF s.is_connected THEN <<Cmd("QUIT", "", Raise(s.quit, 0, ""))>> ELSE <<>>

\* The commands the attempt calls on smtp_client, in order.
AttemptCommands(s) ==
    LET ehlo == IF s.parse = "ok" /\ s.connect.exc = "none"
                THEN <<Cmd("EHLO", "", s.ehlo)>> ELSE <<>>
        mail == IF ehlo # <<>> /\ s.ehlo.exc = "none"
                THEN <<Cmd("MAIL FROM", "", s.mail)>> ELSE <<>>
        rcpt == IF mail # <<>> /\ s.mail.exc = "none" /\ s.mail.code < 400
                THEN <<Cmd("RCPT TO", "target", s.rcpt)>> ELSE <<>>
        sample == IF rcpt # <<>> /\ s.rcpt.exc = "none" /\ s.rcpt.code < 400
                  THEN <<Cmd("RCPT TO", "random", s.sample)>> ELSE <<>>
    IN ehlo \o mail \o rcpt \o sample \o QuitIfConnected(s)

\* Whether the attempt calls smtp_client.connect.
AttemptConnects(s) == s.parse = "ok"

\* An exception that leaves the attempt in place of a result object.
RaiseFromAttempt(exc) ==
    [exists |-> "None", message |-> "", should_retry |-> FALSE, is_catch_all |-> FALSE,
     raised |-> exc]

\* except (aiosmtplib.SMTPException, asyncio.TimeoutError, OSError): pass
\* except Exception as e: log.warning(...)
QuitErrorIgnored(exc) ==
    Bases(exc) \cap {"SMTPException", "TimeoutError", "OSError", "Exception"} # {}

\* A finally clause whose QUIT is not guarded by a try.
Finally_QuitErrorsPropagate(s, verdict) ==
    IF s.is_connected /\ s.quit \notin {"ok", "na"}
    THEN RaiseFromAttempt(s.quit)
    ELSE verdict

\* The finally clause, after the try block produced `verdict`: an exception of quit()
\* that neither except clause catches replaces the result.
Finally(s, verdict) ==
    IF s.is_connected /\ s.quit \notin {"ok", "na"} /\ ~ QuitErrorIgnored(s.quit)
    THEN RaiseFromAttempt(s.quit)
    ELSE verdict

_verify_single_attempt(s) ==
    [verdict |-> Finally(s, AttemptVerdict(s)), log |-> AttemptCommands(s),
     connects |-> AttemptConnects(s)]

(***************************************************************************)
(* SmtpVerifier._get_mail_server and verify_email_with_retries             *)
(***************************************************************************)

\* Names bound in the module namespace of smtp_utils.py by its import statements.
smtp_utils_imports ==
    { "asyncio", "logging", "random", "string", "Optional", "Tuple", "aiosmtplib",
      "Settings", "SmtpError", "SmtpCommandError", "SmtpTlsError",
      "SmtpTemporaryFailureError", "SmtpPermanentFailureError", "SmtpInconclusiveError",
      "ConfigError", "resolve_mail_server", "MailServer", "create_resolver" }

\* `except (SmtpError, DnsError) as e` around resolve_mail_server: Python looks the
\* two names up when an exception reaches the clause; an unbound name is a NameError.
_get_mail_server(dns) ==
    IF dns = "MailServer" THEN [raised |-> "none", mail_server |-> "MailServer"]
    ELSE IF ~ ({"SmtpError", "DnsError"} \subseteq smtp_utils_imports)
    THEN [raised |-> "NameError", mail_server |-> "unset"]
    ELSE IF Bases(dns) \cap {"SmtpError", "DnsError"} # {}
    THEN [raised |-> "none", mail_server |-> "None"]
    ELSE [raised |-> dns, mail_server |-> "unset"]

\* `for attempt in range(max_verification_attempts)`: is there an iteration after this one?
\* range(max_verification_attempts + 1)
MoreAttempts_OffByOne(n) == n + 1 < max_verification_attempts + 1
MoreAttempts(n) == n + 1 < max_verification_attempts

\* The locals of verify_email_with_retries before the loop.
LoopStart ==
    [pc |-> "attempt", attempt |-> 0, last_result |-> "None",
     last_message |-> "SMTP check did not run or complete", is_catch_all |-> FALSE]

\* A loop without `if not result.should_retry: break`.
LoopBody_IgnoresShouldRetry(st, result) ==
    IF result.raised # "none"
    THEN [st EXCEPT !.pc = "return", !.last_message = "Internal error during SMTP check"]
    ELSE LET upd == [st EXCEPT !.last_result = result.exists,
                               !.last_message = result.message,
                               !.is_catch_all = result.is_catch_all]
         IN IF result.exists # "None" THEN [upd EXCEPT !.pc = "return"]
            ELSE IF st.attempt < max_verification_attempts - 1 /\ upd.last_result = "None"
            THEN [upd EXCEPT !.pc = "sleep"]
            ELSE IF MoreAttempts(st.attempt)
            THEN [upd EXCEPT !.pc = "attempt", !.attempt = st.attempt + 1]
            ELSE [upd EXCEPT !.pc = "return"]

\* One iteration of the retry loop, given the result of its attempt: the updates, the
\* breaks, and the decision to sleep.  pc says what follows: the sleep of this
\* iteration, the next iteration, or the return after the loop.
LoopBody(st, result) ==
    IF result.raised # "none"
    THEN \* except SmtpError: break
         [st EXCEPT !.pc = "return", !.last_message = "Internal error during SMTP check"]
    ELSE LET upd == [st EXCEPT !.last_result = result.exists,
                               !.last_message = result.message,
                               !.is_catch_all = result.is_catch_all]
         IN IF result.exists # "None" THEN [upd EXCEPT !.pc = "return"]
            ELSE IF ~ result.should_retry THEN [upd EXCEPT !.pc = "return"]
            ELSE IF st.attempt < max_verification_attempts - 1 /\ upd.last_result = "None"
            THEN [upd EXCEPT !.pc = "sleep"]
            ELSE IF MoreAttempts(st.attempt)
            THEN [upd EXCEPT !.pc = "attempt", !.attempt = st.attempt + 1]
            ELSE [upd EXCEPT !.pc = "return"]

\* asyncio.sleep returned: the for statement takes the next value or ends.
AfterSleep(st) ==
    IF MoreAttempts(st.attempt)
    THEN [st EXCEPT !.pc = "attempt", !.attempt = st.attempt + 1]
    ELSE [st EXCEPT !.pc = "return"]

\* The tuple handed back by `return`, or the exception that left the call.
Returned(status, message, catch_all) ==
    [raised |-> "none", status |-> status, message |-> message, is_catch_all |-> catch_all]
Raised(exc) ==
    [raised |-> exc, status |-> "None", message |-> "", is_catch_all |-> FALSE]
NoReturn == [raised |-> "na", status |-> "None", message |-> "", is_catch_all |-> FALSE]

\* Candidate addresses on which the verifier is exercised alone.
VerifyTargets ==
    { <<"a", "@", "x", ".", "i", "o">>, <<"a", ".", "a", "@", "x", ".", "i", "o">>,
      <<"i", "@", "y", ".", "i", "o">> }

RankIdle ==
    /\ survivors = <<>>
    /\ raised = 0
    /\ ranking_before = <<>>
    /\ ranking_after = <<>>

NoFlags == [is_pattern |-> FALSE, is_scraped |-> FALSE, is_generic |-> FALSE,
            matches_primary_domain |-> FALSE, name_in_email |-> FALSE]

ScoreIdle ==
    /\ score_pc = "idle"
    /\ flags = NoFlags
    /\ c_base = 0
    /\ c_penalized = 0
    /\ c_final = 0
    /\ emitted = FALSE
    /\ smtp_outcome = [dns |-> FALSE, raised |-> "na", status |-> "None",
                       is_catch_all |-> FALSE]

RecordIdle ==
    /\ rec_pc = "idle"
    /\ contact_input = "None"
    /\ dns_exists = FALSE
    /\ validated = "None"
    /\ discovery = "None"
    /\ rec_return = "None"
    /\ http_response = "None"

BatchIdle ==
    /\ batch_pc = "idle"
    /\ request = <<>>
    /\ tasks = <<>>
    /\ final_results = <<>>
    /\ batch_response = "None"

CancelIdle ==
    /\ task_pc = "idle"
    /\ candidate_no = 0
    /\ attempt_no = 0
    /\ pending_exc = [caught |-> TRUE, exc |-> "none", resume |-> "none"]
    /\ cancel_requested = FALSE
    /\ ops_after_cancel = <<>>
    /\ task_outcome = "None"

SettingsIdle ==
    /\ cfg_pc = "idle"
    /\ values = <<>>
    /\ toml_settings = <<>>

EnvelopeIdle ==
    /\ env_pc = "idle"
    /\ configured_max_alternatives = 0
    /\ discovery_results = <<>>
    /\ envelope = <<>>

DialogIdle == discoveries = <<>>

ScraperIdle ==
    /\ scr_pc = "idle"
    /\ urls_to_visit = <<>>
    /\ url_no = 0
    /\ fetch_log = <<>>
    /\ all_found_emails = {}
    /\ successful_pages = 0
    /\ failed_pages = 0
    /\ scrape_return = [raised |-> "na", emails |-> <<>>]

DnsIdle ==
    /\ dns_pc = "idle"
    /\ mx_answer = [error |-> "na", records |-> <<>>]
    /\ a_answer = [error |-> "na", records |-> <<>>]
    /\ dns_queries = <<>>
    /\ dns_return = [raised |-> "na", exchange |-> "", preference |-> 0]

ExtraIdle == DialogIdle /\ ScraperIdle /\ DnsIdle

\* The state of every specification but those of the three groups above.
OthersIdle ==
    /\ RankIdle /\ ScoreIdle /\ RecordIdle /\ BatchIdle
    /\ CancelIdle /\ SettingsIdle /\ EnvelopeIdle
other_vars == <<rank_vars, score_vars, record_vars, batch_vars, cancel_vars, settings_vars,
                envelope_vars>>

MoreIdle == CancelIdle /\ SettingsIdle /\ EnvelopeIdle /\ ExtraIdle

RestIdle == RankIdle /\ ScoreIdle /\ RecordIdle /\ BatchIdle /\ MoreIdle

BeaconIdle ==
    /\ pc = "idle"
    /\ contact = [first_name |-> <<>>, last_name |-> <<>>, domain |-> <<>>]
    /\ generated_patterns = <<>>
    /\ scraped_emails = <<>>
    /\ all_candidates = <<>>
    /\ idx = 0
    /\ verified_emails_data = <<>>
    /\ results = [found_emails |-> <<>>, most_likely_email |-> <<>>, confidence_score |-> 0,
                  methods_used |-> <<>>, verification_log |-> {}]
    /\ probed = <<>>
    /\ dns_resolved = FALSE
    /\ verification_messages = <<>>

InitSmtp ==
    /\ vpc = "start"
    /\ email \in VerifyTargets
    /\ mail_server = "unset"
    /\ attempt = 0
    /\ last_result = "None"
    /\ last_message = ""
    /\ is_catch_all = FALSE
    /\ ret = NoReturn
    /\ smtp_log = <<>>
    /\ answers = NoAnswers
    /\ attempt_result = NoAttempt
    /\ events = <<>>
    /\ BeaconIdle
    /\ RestIdle

\* Lines 243-251: split the domain off, resolve its mail server, return early or
\* set up the loop.
ResolveMailServer ==
    /\ vpc = "start"
    /\ \E dns \in DnsOutcomes :
         LET got == _get_mail_server(dns)
         IN /\ events' = Append(events, [ev |-> "dns", domain |-> SplitLast(email), outcome |-> dns])
            /\ mail_server' = got.mail_server
            /\ IF got.raised # "none"
               THEN /\ vpc' = "raised"
                    /\ ret' = Raised(got.raised)
                    /\ UNCHANGED <<attempt, last_result, last_message, is_catch_all>>
               ELSE IF got.mail_server = "None"
               THEN /\ vpc' = "returned"
                    /\ ret' = Returned("None", "SMTP check skipped (DNS lookup failed)", FALSE)
                    /\ UNCHANGED <<attempt, last_result, last_message, is_catch_all>>
               ELSE /\ vpc' = LoopStart.pc
                    /\ attempt' = LoopStart.attempt
                    /\ last_result' = LoopStart.last_result
                    /\ last_message' = LoopStart.last_message
                    /\ is_catch_all' = LoopStart.is_catch_all
                    /\ ret' = ret
    /\ UNCHANGED <<email, smtp_log, answers, attempt_result, beacon_vars, rest_vars>>

LoopState ==
    [pc |-> vpc, attempt |-> attempt, last_result |-> last_result,
     last_message |-> last_message, is_catch_all |-> is_catch_all]

SetLoopState(st) ==
    /\ attempt' = st.attempt
    /\ last_result' = st.last_result
    /\ last_message' = st.last_message
    /\ is_catch_all' = st.is_catch_all
    /\ IF st.pc = "return"
       THEN /\ vpc' = "returned"
            /\ ret' = Returned(st.last_result, st.last_message, st.is_catch_all)
       ELSE /\ vpc' = st.pc
            /\ ret' = ret

\* One iteration of the loop up to its next suspension point (the sleep, the next
\* attempt) or to the return.
Attempt ==
    /\ vpc = "attempt"
    /\ \E s \in Scripts :
         LET a == _verify_single_attempt(s)
         IN /\ smtp_log' = a.log
            /\ answers' = s
            /\ attempt_result' = a.verdict
            /\ events' = events \o (IF a.connects THEN <<[ev |-> "connect"]>> ELSE <<>>)
                                \o <<[ev |-> "attempt",
                                      is_catch_all |-> a.verdict.is_catch_all]>>
            /\ SetLoopState(LoopBody(LoopState, a.verdict))
    /\ UNCHANGED <<email, mail_server, beacon_vars, rest_vars>>

\* The sleep between two attempts.
Sleep ==
    /\ vpc = "sleep"
    /\ events' = Append(events, [ev |-> "sleep"])
    /\ SetLoopState(AfterSleep(LoopState))
    /\ UNCHANGED <<email, mail_server, smtp_log, answers, attempt_result, beacon_vars,
                   rest_vars>>

NextSmtp == ResolveMailServer \/ Attempt \/ Sleep

SpecSmtp == InitSmtp /\ [][NextSmtp]_vars

(***************************************************************************)
(* A whole call of verify_email_with_retries, as find_email sees it        *)
(***************************************************************************)

\* The loop states one step after those of S: an attempt with any answers, or the sleep.
LoopStep(st) ==
    IF st.pc = "return" THEN {st}
    ELSE IF st.pc = "sleep" THEN {AfterSleep(st)}
    ELSE {LoopBody(st, _verify_single_attempt(s).verdict) : s \in Scripts}

RECURSIVE RunLoop(_)
RunLoop(S) ==
    IF \A st \in S : st.pc = "return" THEN S
    ELSE RunLoop(UNION {LoopStep(st) : st \in S})

\* Every way the call can end: the DNS outcome it met, the number of attempts it made,
\* and the tuple it returned or the exception it let through.
verify_email_with_retries ==
    { [dns |-> d, attempts |-> 0,
       ret |-> IF _get_mail_server(d).raised # "none"
               THEN Raised(_get_mail_server(d).raised)
               ELSE Returned("None", "SMTP check skipped (DNS lookup failed)", FALSE)] :
        d \in {x \in DnsOutcomes : _get_mail_server(x).mail_server # "MailServer"} }
    \cup
    { [dns |-> d, attempts |-> st.attempt + 1,
       ret |-> Returned(st.last_result, st.last_message, st.is_catch_all)] :
        d \in {x \in DnsOutcomes : _get_mail_server(x).mail_server = "MailServer"},
        st \in RunLoop({LoopStart}) }

(***************************************************************************)
(* app/core/patterns.py                                                    *)
(***************************************************************************)

LocalChars == Letters \cup {".", "_", "-"}
DomainChars == Letters \cup {".", "-"}
WordChars == Letters \cup {"_"}

\* settings.email_regex.match(s) with the default pattern
\*   \b[A-Za-z0-9._%+-]+@[A-Za-z0-9.-]+\.[A-Z|a-z]{2,}\b
\* a is the '@', d the dot before the top-level part, e the end of the match.
email_regex_match(s) ==
    \E a \in 2..Len(s) :
        /\ s[a] = "@"
        /\ s[1] \in WordChars
        /\ \A i \in 1..(a - 1) : s[i] \in LocalChars
        /\ \E d \in (a + 2)..Len(s) :
             /\ s[d] = "."
             /\ \A i \in (a + 1)..(d - 1) : s[i] \in DomainChars
             /\ \E e \in (d + 2)..Len(s) :
                  /\ \A i \in (d + 1)..e : s[i] \in Letters
                  /\ (e = Len(s) \/ s[e + 1] \notin WordChars)

IsSpace(c) == c = " "
NotSpace(c) == ~ IsSpace(c)
\* "".join(part.split()).lower()
_sanitize_name_part(part) == Lower(SelectSeq(part, NotSpace))

Prefix3(s) == SubSeq(s, 1, 3)

generate_email_patterns(first_name, last_name, domain) ==
    IF first_name = <<>> \/ last_name = <<>> \/ domain = <<>> \/ ~ Contains(<<".">>, domain)
    THEN <<>>
    ELSE
    LET first == _sanitize_name_part(first_name)
        last == _sanitize_name_part(last_name)
    IN IF first = <<>> \/ last = <<>> THEN <<>>
       ELSE
       LET first_initial == <<first[1]>>
           last_initial == <<last[1]>>
           local_parts ==
               { first,
                 first \o <<".">> \o last,
                 first \o last,
                 last \o <<".">> \o first,
                 last \o first,
                 first_initial \o last,
                 first_initial \o <<".">> \o last,
                 first \o last_initial,
                 first \o <<".">> \o last_initial,
                 first \o <<"_">> \o last,
                 first \o <<"-">> \o last,
                 last \o <<"_">> \o first,
                 last \o <<"-">> \o first }
               \cup (IF Len(first) >= 3 THEN {Prefix3(first) \o last} ELSE {})
               \cup (IF Len(last) >= 3 THEN {first \o Prefix3(last)} ELSE {})
           patterns_set ==
               { lp \o <<"@">> \o domain : lp \in {x \in local_parts : x # <<>>} }
       IN SortedList({e \in patterns_set : email_regex_match(e)})

(***************************************************************************)
(* MailBeacon.find_email (app/core/beacon.py)                              *)
(***************************************************************************)

At(local, domain) == local \o <<"@">> \o domain
XIo == <<"x", ".", "i", "o">>
YIo == <<"y", ".", "i", "o">>

\* The calls of find_email the model makes.  The second passes a domain that was not
\* lowercased: find_email lowercases candidates itself.
Contacts ==
    { [first_name |-> <<"a">>, last_name |-> <<"a">>, domain |-> XIo],
      [first_name |-> <<"a">>, last_name |-> <<"a">>, domain |-> <<"X", ".", "i", "o">>] }

\* Addresses the site may publish: the person's own, role addresses on the domain and
\* on another one, other people's, and the content of a mailto: link that only starts
\* with an address (the scraper accepts it with email_regex.match).
ScrapeUniverse ==
    { At(<<"a">>, XIo), At(<<"a", "a">>, XIo), At(<<"c">>, XIo), At(<<"i">>, XIo),
      At(<<"i">>, YIo), At(<<"c">>, YIo), At(At(<<"c">>, YIo), XIo) }

\* At most this many addresses on the site.
MaxScraped == 2

\* Scraper.scrape_website_for_emails: sorted(list(all_found_emails)), or an error.
ScrapeOutcomes ==
    { [raised |-> "none", emails |-> SortedList(S)] :
        S \in {T \in SUBSET ScrapeUniverse : Cardinality(T) <= MaxScraped} }
    \cup { [raised |-> e, emails |-> <<>>] : e \in {"EmailSleuthError", "Exception"} }

is_generic_prefix(e) == Lower(SplitFirst(e)) \in generic_email_prefixes

\* The addresses of one list that go to name_candidates (TRUE) or other_candidates.
RECURSIVE Partition(_, _, _, _)
Partition(list, first_lower, last_lower, named) ==
    IF list = <<>> THEN <<>>
    ELSE LET lp == SplitFirst(Head(list))
             has_name == Contains(first_lower, lp) \/ Contains(last_lower, lp)
         IN (IF has_name = named THEN <<Head(list)>> ELSE <<>>)
            \o Partition(Tail(list), first_lower, last_lower, named)

\* add_candidate applied to each element of list in turn.
RECURSIVE add_candidates_Keeps(_, _)
add_candidates_Keeps(acc, list) ==
    IF list = <<>> THEN acc
    ELSE add_candidates_Keeps(Append(acc, Lower(Head(list))), Tail(list))

RECURSIVE add_candidates(_, _)
add_candidates(acc, list) ==
    IF list = <<>> THEN acc
    ELSE LET email_lower == Lower(Head(list))
         IN add_candidates(IF email_lower \notin SeqToSet(acc)
                           THEN Append(acc, email_lower) ELSE acc,
                           Tail(list))

\* Step 3: name candidates (patterns, then scraped), then the others, without repeats.
CombineCandidates(patterns, scraped, first_lower, last_lower) ==
    LET name_candidates == Partition(patterns, first_lower, last_lower, TRUE)
                           \o Partition(scraped, first_lower, last_lower, TRUE)
        other_candidates == Partition(patterns, first_lower, last_lower, FALSE)
                            \o Partition(scraped, first_lower, last_lower, FALSE)
    IN add_candidates(add_candidates(<<>>, name_candidates), other_candidates)

\* "Skip if not primary domain unless it's a scraped generic": TRUE when skipped.
SkipsDomain_ScrapedOnly(matches_primary_domain, is_scraped, is_generic) ==
    ~ matches_primary_domain /\ ~ is_scraped
SkipsDomain(matches_primary_domain, is_scraped, is_generic) ==
    ~ matches_primary_domain /\ ~ (is_scraped /\ is_generic)

Bump(cond, n) == IF cond THEN n ELSE 0

\* "Initial Confidence Scoring"
BaseConfidence(is_pattern, is_scraped, name_in_email, matches_primary_domain) ==
    Bump(is_pattern /\ name_in_email, 3)
    + Bump(is_scraped /\ name_in_email, 5)
    + Bump(is_scraped /\ ~ name_in_email, 2)
    + Bump(is_pattern /\ ~ name_in_email, 1)
    + Bump(matches_primary_domain, 1)

MaxOf(a, b) == IF a >= b THEN a ELSE b
MinOf(a, b) == IF a <= b THEN a ELSE b

\* "Apply penalties for generic emails"
GenericPenalty_NoFloor(base, is_generic, name_in_email) ==
    IF is_generic /\ name_in_email /\ base > 1 THEN base - 5
    ELSE IF is_generic /\ ~ name_in_email /\ base > 2 THEN base - 2
    ELSE base
\* A penalty of 4 in place of 5 for a generic address that holds the name.
GenericPenalty_PenaltyOfFour(base, is_generic, name_in_email) ==
    IF is_generic /\ name_in_email /\ base > 1 THEN MaxOf(1, base - 4)
    ELSE IF is_generic /\ ~ name_in_email /\ base > 2 THEN MaxOf(1, base - 2)
    ELSE base
GenericPenalty(base_confidence, is_generic, name_in_email) ==
    IF is_generic /\ name_in_email /\ base_confidence > 1
    THEN MaxOf(1, base_confidence - 5)
    ELSE IF is_generic /\ ~ name_in_email /\ base_confidence > 2
    THEN MaxOf(1, base_confidence - 2)
    ELSE base_confidence

\* A decision that verifies from confidence 2 on.
should_verify_smtp_FromTwo(confidence, is_scraped, name_in_email) ==
    confidence >= 2 \/ (is_scraped /\ name_in_email /\ confidence > 1)

should_verify_smtp(confidence, is_scraped, name_in_email) ==
    confidence >= 3 \/ (is_scraped /\ name_in_email /\ confidence > 1)

\* What find_email keeps of one verification: the try block around the call and the
\* two except clauses.  `out` is how the call ended.
AfterVerification_ErrorIsRejection(confidence, out) ==
    IF out.raised # "none"
    THEN [confidence |-> 0, verification_status |-> "False"]
    ELSE IF out.status = "True"
    THEN [confidence |-> confidence + 5, verification_status |-> "True"]
    ELSE IF out.status = "False"
    THEN [confidence |-> 0, verification_status |-> "False"]
    ELSE [confidence |-> confidence + (IF out.is_catch_all THEN 0 ELSE 1),
          verification_status |-> "None"]
\* An inconclusive verdict that always gets the boost of 1.
AfterVerification_BoostDespiteCatchAll(confidence, out) ==
    IF out.raised # "none"
    THEN [confidence |-> confidence, verification_status |-> "None"]
    ELSE IF out.status = "True"
    THEN [confidence |-> confidence + 5, verification_status |-> "True"]
    ELSE IF out.status = "False"
    THEN [confidence |-> 0, verification_status |-> "False"]
    ELSE [confidence |-> confidence + 1, verification_status |-> "None"]
AfterVerification(confidence, out) ==
    IF out.raised # "none"
    THEN [confidence |-> confidence, verification_status |-> "None"]
    ELSE IF out.status = "True"
    THEN [confidence |-> confidence + 5, verification_status |-> "True"]
    ELSE IF out.status = "False"
    THEN [confidence |-> 0, verification_status |-> "False"]
    ELSE [confidence |-> confidence + (IF out.is_catch_all THEN 0 ELSE 1),
          verification_status |-> "None"]

\* What find_email reads of a call of verify_email_with_retries: the exception or the
\* status and catch-all flag (the message only goes to the log), and whether the mail
\* server had been resolved.
VerificationCalls ==
    { [dns |-> c.dns = "MailServer", raised |-> c.ret.raised, status |-> c.ret.status,
       is_catch_all |-> c.ret.is_catch_all] : c \in verify_email_with_retries }
NoVerification == [dns |-> FALSE, raised |-> "na", status |-> "None", is_catch_all |-> FALSE]

\* verification_message: the verifier's, or the one of the except clause that caught
\* its exception, or the one of a candidate that is not verified.
VerificationMessage(verify, out) ==
    IF ~ verify THEN "Verification skipped (low initial confidence)"
    ELSE IF out.raised = "none" THEN "ver_msg"
    ELSE IF "EmailSleuthError" \in Bases(out.raised) THEN "SMTP Error"
    ELSE "Unexpected SMTP Error"

\* "Clamp confidence score 0-10"
Clamp_NoUpperBound(confidence) == MaxOf(0, confidence)
Clamp(confidence) == MaxOf(0, MinOf(10, confidence))

\* FoundEmailData, without the free text of verification_message.
FoundEmailData(e, confidence, is_scraped, is_generic, status) ==
    [email |-> e, confidence |-> confidence,
     source |-> IF is_scraped THEN "scraped" ELSE "pattern",
     is_generic |-> is_generic, verification_status |-> status]

\* The sort key (e.confidence, not e.is_generic, e.source == 'scraped') and Python's
\* order on such tuples (False < True).
SortKey(e) == <<e.confidence, IF e.is_generic THEN 0 ELSE 1,
                IF e.source = "scraped" THEN 1 ELSE 0>>
KeyLess_ConfidenceOnly(k, l) == k[1] < l[1]
KeyLess(k, l) ==
    \/ k[1] < l[1]
    \/ k[1] = l[1] /\ k[2] < l[2]
    \/ k[1] = l[1] /\ k[2] = l[2] /\ k[3] < l[3]

\* list.sort(key=..., reverse=True): descending and stable.
RECURSIVE InsertDescending_Ascending(_, _)
InsertDescending_Ascending(sorted, x) ==
    IF sorted = <<>> THEN <<x>>
    ELSE IF KeyLess(SortKey(x), SortKey(Head(sorted))) THEN <<x>> \o sorted
    ELSE <<Head(sorted)>> \o InsertDescending_Ascending(Tail(sorted), x)

RECURSIVE InsertDescending(_, _)
InsertDescending(sorted, x) ==
    IF sorted = <<>> THEN <<x>>
    ELSE IF KeyLess(SortKey(Head(sorted)), SortKey(x)) THEN <<x>> \o sorted
    ELSE <<Head(sorted)>> \o InsertDescending(Tail(sorted), x)

RECURSIVE SortDescending(_)
SortDescending(list) ==
    IF list = <<>> THEN <<>>
    ELSE InsertDescending(SortDescending(SubSeq(list, 1, Len(list) - 1)), list[Len(list)])

None == <<>>

\* next((e for e in found_emails if not e.is_generic and e.confidence >= threshold), None),
\* as an index into found_emails (0 for None).
BestNonGeneric_AnyFirst(found) ==
    LET I == {i \in 1..Len(found) : found[i].confidence >= confidence_threshold}
    IN IF I = {} THEN 0 ELSE Min(I)
BestNonGeneric(found) ==
    LET I == {i \in 1..Len(found) :
                ~ found[i].is_generic /\ found[i].confidence >= confidence_threshold}
    IN IF I = {} THEN 0 ELSE Min(I)

\* "Select Best Email": the pair (most_likely_email, confidence_score).
SelectBest_ScoreOfTop(found) ==
    LET b == BestNonGeneric(found)
    IN IF b # 0 THEN [email |-> found[b].email, score |-> found[1].confidence]
       ELSE [email |-> None, score |-> 0]
\* "Select if confidence is high enough. Allow generic only if confidence meets the
\* higher generic threshold"
TopQualifies_OneThreshold(top_candidate) ==
    top_candidate.confidence >= confidence_threshold
TopQualifies(top_candidate) ==
    /\ top_candidate.confidence >= confidence_threshold
    /\ (~ top_candidate.is_generic
        \/ top_candidate.confidence >= generic_confidence_threshold)

SelectBest(found) ==
    LET b == BestNonGeneric(found)
    IN IF b # 0 THEN [email |-> found[b].email, score |-> found[b].confidence]
       ELSE IF found # <<>> /\ TopQualifies(found[1])
       THEN [email |-> found[1].email, score |-> found[1].confidence]
       ELSE [email |-> None, score |-> 0]

ScrapingErrorKey == <<"scraping_error">>

\* lines 89-99: what the scraping step leaves in the result: the method when relevant
\* addresses were found, the error entry of the log when the scraper raised.
AfterScraping_MethodBeforeAwait(res, o, kept) ==
    IF o.raised # "none"
    THEN [res EXCEPT !.methods_used = Append(@, "website_scraping"),
                     !.verification_log = @ \cup {ScrapingErrorKey}]
    ELSE IF kept # <<>>
    THEN [res EXCEPT !.methods_used = Append(@, "website_scraping")]
    ELSE res
AfterScraping(res, o, kept) ==
    IF o.raised # "none"
    THEN [res EXCEPT !.verification_log = @ \cup {ScrapingErrorKey}]
    ELSE IF kept # <<>>
    THEN [res EXCEPT !.methods_used = Append(@, "website_scraping")]
    ELSE res

VerifierIdle ==
    /\ vpc = "idle"
    /\ email = <<>>
    /\ mail_server = "unset"
    /\ attempt = 0
    /\ last_result = "None"
    /\ last_message = ""
    /\ is_catch_all = FALSE
    /\ ret = NoReturn
    /\ smtp_log = <<>>
    /\ answers = NoAnswers
    /\ attempt_result = NoAttempt
    /\ events = <<>>

Init ==
    /\ pc = "start"
    /\ contact \in Contacts
    /\ generated_patterns = <<>>
    /\ scraped_emails = <<>>
    /\ all_candidates = <<>>
    /\ idx = 0
    /\ verified_emails_data = <<>>
    /\ results = [found_emails |-> <<>>, most_likely_email |-> None, confidence_score |-> 0,
                  methods_used |-> <<>>, verification_log |-> {}]
    /\ probed = <<>>
    /\ dns_resolved = FALSE
    /\ verification_messages = <<>>
    /\ VerifierIdle
    /\ RestIdle

first_lower == Lower(contact.first_name)
last_lower == Lower(contact.last_name)

\* Step 1.
GeneratePatterns ==
    /\ pc = "start"
    /\ generated_patterns' =
           generate_email_patterns(contact.first_name, contact.last_name, contact.domain)
    /\ results' = IF generated_patterns' # <<>>
                  THEN [results EXCEPT !.methods_used = Append(@, "pattern_generation")]
                  ELSE results
    /\ pc' = "scrape"
    /\ UNCHANGED <<contact, scraped_emails, all_candidates, idx, verified_emails_data,
                   probed, dns_resolved, verification_messages, verifier_vars, rest_vars>>

\* Steps 2 and 3: the scraper returns or raises; filter, combine and order.
ScrapeWebsite ==
    /\ pc = "scrape"
    /\ \E o \in ScrapeOutcomes :
         LET Relevant(e) == EndsWith(e, <<"@">> \o contact.domain) \/ is_generic_prefix(e)
             kept == IF o.raised = "none" THEN SelectSeq(o.emails, Relevant) ELSE <<>>
         IN /\ scraped_emails' = kept
            /\ results' = AfterScraping(results, o, kept)
            /\ all_candidates' =
                 CombineCandidates(generated_patterns, kept, first_lower, last_lower)
    /\ idx' = 1
    /\ pc' = "loop"
    /\ UNCHANGED <<contact, generated_patterns, verified_emails_data, probed,
                   dns_resolved, verification_messages, verifier_vars, rest_vars>>

\* Step 4, one candidate: the checks, the score, the verification and its adjustment,
\* the record.  A verified candidate is followed by the sleep.
AssessCandidate ==
    /\ pc = "loop"
    /\ idx <= Len(all_candidates)
    /\ LET e == all_candidates[idx]
           email_local_part == SplitFirst(e)
           email_domain_part == SplitRest(e)
           is_scraped == e \in SeqToSet(scraped_emails)
           is_pattern == e \in SeqToSet(generated_patterns)
           is_generic == is_generic_prefix(e)
           matches_primary_domain == email_domain_part = contact.domain
           name_in_email == Contains(first_lower, email_local_part)
                            \/ Contains(last_lower, email_local_part)
           confidence == GenericPenalty(
                             BaseConfidence(is_pattern, is_scraped, name_in_email,
                                            matches_primary_domain),
                             is_generic, name_in_email)
           verify == should_verify_smtp(confidence, is_scraped, name_in_email)
       IN IF ~ email_regex_match(e) \/ SkipsDomain(matches_primary_domain, is_scraped, is_generic)
          THEN /\ idx' = idx + 1
               /\ pc' = "loop"
               /\ UNCHANGED <<verified_emails_data, results, probed, dns_resolved,
                              verification_messages>>
          ELSE \E call \in (IF verify THEN VerificationCalls ELSE {NoVerification}) :
                 LET after == IF verify THEN AfterVerification(confidence, call)
                              ELSE [confidence |-> confidence, verification_status |-> "None"]
                     final_confidence == Clamp(after.confidence)
                 IN /\ results' =
                         [results EXCEPT
                            !.methods_used =
                                IF verify /\ "smtp_verification" \notin SeqToSet(@)
                                THEN Append(@, "smtp_verification") ELSE @,
                            !.verification_log = @ \cup {e}]
                    /\ verified_emails_data' =
                         IF final_confidence > 0
                         THEN Append(verified_emails_data,
                                     FoundEmailData(e, final_confidence, is_scraped,
                                                    is_generic, after.verification_status))
                         ELSE verified_emails_data
                    /\ probed' = IF verify THEN Append(probed, e) ELSE probed
                    /\ dns_resolved' = (dns_resolved \/ (verify /\ call.dns))
                    /\ verification_messages' =
                         Append(verification_messages,
                                [email |-> e,
                                 message |-> VerificationMessage(verify, call)])
                    /\ IF verify THEN pc' = "sleep" /\ idx' = idx
                       ELSE pc' = "loop" /\ idx' = idx + 1
    /\ UNCHANGED <<contact, generated_patterns, scraped_emails, all_candidates,
                   verifier_vars, rest_vars>>

\* "Sleep after verification attempt (if performed)"
SleepAfterVerification ==
    /\ pc = "sleep"
    /\ pc' = "loop"
    /\ idx' = idx + 1
    /\ UNCHANGED <<contact, generated_patterns, scraped_emails, all_candidates,
                   verified_emails_data, results, probed, dns_resolved,
                   verification_messages, verifier_vars, rest_vars>>

\* Step 5: sort, select, return.
SelectBestEmail ==
    /\ pc = "loop"
    /\ idx > Len(all_candidates)
    /\ LET found == SortDescending(verified_emails_data)
           best == SelectBest(found)
       IN /\ verified_emails_data' = found
          /\ results' = [results EXCEPT !.found_emails = found,
                                        !.most_likely_email = best.email,
                                        !.confidence_score = best.score]
    /\ pc' = "done"
    /\ UNCHANGED <<contact, generated_patterns, scraped_emails, all_candidates, idx,
                   probed, dns_resolved, verification_messages, verifier_vars, rest_vars>>

Next ==
    \/ GeneratePatterns
    \/ ScrapeWebsite
    \/ AssessCandidate
    \/ SleepAfterVerification
    \/ SelectBestEmail

Spec == Init /\ [][Next]_vars

(***************************************************************************)
(* The ranking of find_email's step 5 applied to arbitrary survivors       *)
(***************************************************************************)

\* Longest survivor list ranked on its own.
MaxSurvivors == 3

RankEmails == <<At(<<"a">>, XIo), At(<<"c">>, XIo), At(<<"i">>, XIo), At(<<"a", "a">>, XIo)>>
RankConfidences == {4, 5, 9}
RankFlags == RankConfidences \X BOOLEAN \X BOOLEAN

\* Survivor lists: distinct addresses (C8), any confidence, genericity and source.
SurvivorLists ==
    UNION { { [i \in 1..n |-> FoundEmailData(RankEmails[i], f[i][1], f[i][2], f[i][3], "None")] :
                f \in [1..n -> RankFlags] } : n \in 1..MaxSurvivors }

EmailsOf(list) == [i \in 1..Len(list) |-> list[i].email]

InitRank ==
    /\ survivors \in SurvivorLists
    /\ raised = 0
    /\ ranking_before = <<>>
    /\ ranking_after = <<>>
    /\ VerifierIdle
    /\ BeaconIdle
    /\ ScoreIdle
    /\ RecordIdle
    /\ BatchIdle
    /\ MoreIdle

\* verified_emails_data.sort(...) on the survivors as they are.
SortSurvivors ==
    /\ ranking_before = <<>>
    /\ ranking_before' = SortDescending(survivors)
    /\ UNCHANGED <<survivors, raised, ranking_after, verifier_vars, beacon_vars, score_vars, record_vars, batch_vars, more_vars>>

\* The same sort on the survivors with one record's confidence higher.
SortWithRaisedConfidence ==
    /\ ranking_before # <<>>
    /\ raised = 0
    /\ \E i \in 1..Len(survivors) :
         \E c \in RankConfidences :
            /\ c > survivors[i].confidence
            /\ raised' = i
            /\ ranking_after' = SortDescending([survivors EXCEPT ![i].confidence = c])
    /\ UNCHANGED <<survivors, ranking_before, verifier_vars, beacon_vars, score_vars, record_vars, batch_vars, more_vars>>

NextRank == SortSurvivors \/ SortWithRaisedConfidence

SpecRank == InitRank /\ [][NextRank]_vars

(***************************************************************************)
(* The scoring of one candidate (find_email, step 4) for every provenance  *)
(***************************************************************************)

\* The flags a candidate can have: a pattern ends with "@" + domain; a candidate that
\* is neither in generated_patterns nor in scraped_emails is a pattern whose lowercase
\* form differs from it, so its domain part differs from domain.
CandidateFlags ==
    { f \in [is_pattern : BOOLEAN, is_scraped : BOOLEAN, is_generic : BOOLEAN,
             matches_primary_domain : BOOLEAN, name_in_email : BOOLEAN] :
        /\ f.is_pattern => f.matches_primary_domain
        /\ (~ f.is_pattern /\ ~ f.is_scraped) => ~ f.matches_primary_domain }

InitScore ==
    /\ score_pc = "flags"
    /\ flags \in CandidateFlags
    /\ c_base = 0
    /\ c_penalized = 0
    /\ c_final = 0
    /\ emitted = FALSE
    /\ smtp_outcome = NoVerification
    /\ VerifierIdle
    /\ BeaconIdle
    /\ RankIdle
    /\ RecordIdle
    /\ BatchIdle
    /\ MoreIdle

\* lines 162-165
CheckDomain ==
    /\ score_pc = "flags"
    /\ score_pc' = IF SkipsDomain(flags.matches_primary_domain, flags.is_scraped,
                                  flags.is_generic)
                   THEN "skipped" ELSE "checked"
    /\ UNCHANGED <<flags, c_base, c_penalized, c_final, emitted, smtp_outcome,
                   verifier_vars, beacon_vars,
                   rank_vars, record_vars, batch_vars, more_vars>>

\* lines 170-175
ScoreBase ==
    /\ score_pc = "checked"
    /\ c_base' = BaseConfidence(flags.is_pattern, flags.is_scraped,
                                         flags.name_in_email, flags.matches_primary_domain)
    /\ score_pc' = "base"
    /\ UNCHANGED <<flags, c_penalized, c_final, emitted, smtp_outcome, verifier_vars,
                   beacon_vars,
                   rank_vars, record_vars, batch_vars, more_vars>>

\* lines 180-190
ApplyGenericPenalty ==
    /\ score_pc = "base"
    /\ c_penalized' = GenericPenalty(c_base, flags.is_generic, flags.name_in_email)
    /\ score_pc' = "penalized"
    /\ UNCHANGED <<flags, c_base, c_final, emitted, smtp_outcome, verifier_vars,
                   beacon_vars,
                   rank_vars, record_vars, batch_vars, more_vars>>

\* lines 195-248
VerifyAndClamp ==
    /\ score_pc = "penalized"
    /\ LET verify == should_verify_smtp(c_penalized, flags.is_scraped, flags.name_in_email)
       IN \E call \in (IF verify THEN VerificationCalls ELSE {NoVerification}) :
            /\ smtp_outcome' = call
            /\ c_final' =
                Clamp(IF verify THEN AfterVerification(c_penalized, call).confidence
                      ELSE c_penalized)
    /\ score_pc' = "final"
    /\ UNCHANGED <<flags, c_base, c_penalized, emitted, verifier_vars, beacon_vars,
                   rank_vars, record_vars, batch_vars, more_vars>>

\* lines 250-261
RecordCandidate ==
    /\ score_pc = "final"
    /\ emitted' = (c_final > 0)
    /\ score_pc' = "recorded"
    /\ UNCHANGED <<flags, c_base, c_penalized, c_final, smtp_outcome, verifier_vars,
                   beacon_vars,
                   rank_vars, record_vars, batch_vars, more_vars>>

NextScore ==
    \/ CheckDomain
    \/ ScoreBase
    \/ ApplyGenericPenalty
    \/ VerifyAndClamp
    \/ RecordCandidate

SpecScore == InitScore /\ [][NextScore]_vars

(***************************************************************************)
(* process_record (app/core/processor.py) and extract_domain, normalize_url *)
(* (app/core/domain_utils.py)                                              *)
(***************************************************************************)

\* A falsy Optional[str] (None or "").
Falsy == <<>>

\* full_name: None, or a string given by the list of its words (full_name.split());
\* a string of blanks is truthy and has no word.
FullNames ==
    { [given |-> FALSE, parts |-> <<>>], [given |-> TRUE, parts |-> <<>>],
      [given |-> TRUE, parts |-> << <<"a">> >>],
      [given |-> TRUE, parts |-> << <<"a">>, <<"c">> >>],
      [given |-> TRUE, parts |-> << <<"a">>, <<"i">>, <<"c">> >>] }

\* The domain field as urlparse sees it once a scheme is there: scheme, "www." or not,
\* host name, ":port" or not.
UrlInputs ==
    { u \in [scheme : {"", "http://", "https://"}, www : BOOLEAN,
             host : {<<>>, <<"X", ".", "i", "o">>}, port : BOOLEAN] :
        ~ (u.scheme = "" /\ ~ u.www /\ u.host = <<>> /\ ~ u.port) }

\* ContactBase.check_name_and_domain
check_name_and_domain(c) ==
    /\ c.full_name.given \/ (c.first_name # Falsy /\ c.last_name # Falsy)
    /\ c.domain # Falsy

\* The contacts a request can carry: those the validator of ContactBase accepts.
RecordContacts ==
    { c \in [first_name : {Falsy, <<"a">>}, last_name : {Falsy, <<"c">>},
             full_name : FullNames, domain : UrlInputs] : check_name_and_domain(c) }

Or(a, b) == IF a # Falsy THEN a ELSE b

\* lines 43-59: the names, or the exception raised.
DeriveNames(c) ==
    LET parts == c.full_name.parts
        derive == ~ (c.first_name # Falsy /\ c.last_name # Falsy) /\ c.full_name.given
        first == IF derive /\ Len(parts) >= 1 THEN Or(c.first_name, parts[1])
                 ELSE c.first_name
        last == IF derive /\ Len(parts) >= 2 THEN Or(c.last_name, parts[Len(parts)])
                ELSE IF derive /\ Len(parts) = 1 THEN Or(c.last_name, parts[1])
                ELSE c.last_name
    IN IF first = Falsy \/ last = Falsy
       THEN [raised |-> "InsufficientInputError", first_name |-> first, last_name |-> last]
       ELSE [raised |-> "none", first_name |-> first, last_name |-> last]

\* parsed.netloc
Netloc(u) == [www |-> u.www, host |-> u.host, port |-> u.port]
NetlocEmpty(u) == ~ u.www /\ u.host = <<>> /\ ~ u.port

\* normalize_url: the string with a scheme, or the exception raised.
normalize_url(u) ==
    LET with_scheme == [u EXCEPT !.scheme = IF u.scheme = "" THEN "https://" ELSE @]
    IN IF NetlocEmpty(u) THEN [raised |-> "UrlParseError", url |-> with_scheme]
       ELSE [raised |-> "none", url |-> with_scheme]

\* extract_domain: netloc without port and without "www.", lowercased, or the exception
\* raised.
extract_domain(u) ==
    IF NetlocEmpty(u) THEN [raised |-> "DomainExtractionError", domain |-> <<>>]
    ELSE IF Lower(u.host) = <<>> THEN [raised |-> "DomainExtractionError", domain |-> <<>>]
    ELSE [raised |-> "none", domain |-> Lower(u.host)]

\* ProcessingResult as process_record fills it.
NoResults == "None"
ProcessingResult(c, email_discovery_results, skipped, reason, error) ==
    [contact_input |-> c, email_discovery_results |-> email_discovery_results,
     email_finding_skipped |-> skipped, email_finding_reason |-> reason,
     email_finding_error |-> error]

\* The except clauses of process_record, lines 92-121.
RecordExcept(c, e) ==
    IF Bases(e) \cap {"ValidationError", "InsufficientInputError", "DomainExtractionError",
                      "UrlParseError"} # {}
    THEN ProcessingResult(c, NoResults, TRUE, "Input validation/normalization failed", "None")
    ELSE IF "EmailSleuthError" \in Bases(e)
    THEN ProcessingResult(c, NoResults, FALSE, "None", "str(e)")
    ELSE ProcessingResult(c, NoResults, FALSE, "None", "Unexpected critical error")

\* lines 41-72: what the try block does before the call of find_email.
ValidatedInput(c) ==
    LET names == DeriveNames(c)
        url == normalize_url(c.domain)
        dom == extract_domain(c.domain)
        exc == IF names.raised # "none" THEN names.raised
               ELSE IF url.raised # "none" THEN url.raised
               ELSE dom.raised
    IN [raised |-> exc, first_name |-> names.first_name, last_name |-> names.last_name,
        domain |-> dom.domain, website_url |-> url.url]

\* How the call of beacon.find_email ends: with an EmailResult, or with an exception:
\* of the classes find_email documents, of the models it builds (pydantic), or another.
DiscoveryRaises == {"ValidationError", "NxDomainError", "SmtpError", "Exception"}
DiscoveryOutcomes(exists) ==
    {[raised |-> "none"]}
    \cup {[raised |-> e] : e \in IF exists THEN DiscoveryRaises \ {"NxDomainError"}
                                 ELSE DiscoveryRaises}

\* lines 75-121
AfterDiscovery(c, outcome) ==
    IF outcome.raised = "none"
    THEN ProcessingResult(c, "EmailResult", FALSE, "None", "None")
    ELSE RecordExcept(c, outcome.raised)

\* EmailSleuthError.status_code of the classes the model raises (app/exceptions.py).
StatusCode(cls) ==
    CASE cls \in {"NxDomainError", "NoDnsRecordsError"} -> 404
      [] cls \in {"InsufficientInputError", "DomainExtractionError", "UrlParseError"} -> 400
      [] cls \in {"SmtpError", "DnsError", "DnsTimeoutError"} -> 503
      [] OTHER -> 500

\* What FastAPI answers for find_single_email: the returned model with status 200, or
\* email_sleuth_exception_handler's answer for an EmailSleuthError that propagated.
SingleResponse(returned) ==
    IF returned.raised = "none" THEN [status |-> 200, body |-> returned.value]
    ELSE [status |-> StatusCode(returned.raised), body |-> "detail"]

InitRecord ==
    /\ rec_pc = "start"
    /\ contact_input \in RecordContacts
    /\ dns_exists \in BOOLEAN
    /\ validated = "None"
    /\ discovery = "None"
    /\ rec_return = "None"
    /\ http_response = "None"
    /\ VerifierIdle
    /\ BeaconIdle
    /\ RankIdle
    /\ ScoreIdle
    /\ BatchIdle
    /\ MoreIdle

\* process_record, lines 41-72 and, when they raise, the except clauses and the return.
ValidateInput ==
    /\ rec_pc = "start"
    /\ validated' = ValidatedInput(contact_input)
    /\ IF validated'.raised # "none"
       THEN /\ rec_return' = [raised |-> "none",
                              value |-> RecordExcept(contact_input, validated'.raised)]
            /\ rec_pc' = "returned"
       ELSE /\ rec_return' = rec_return
            /\ rec_pc' = "discover"
    /\ UNCHANGED <<contact_input, dns_exists, discovery, http_response, verifier_vars,
                   beacon_vars, rank_vars, score_vars, batch_vars, more_vars>>

\* process_record, lines 75-121: the call of find_email, the result or the except clause.
CallFindEmail ==
    /\ rec_pc = "discover"
    /\ \E outcome \in DiscoveryOutcomes(dns_exists) :
         /\ discovery' = outcome
         /\ rec_return' = [raised |-> "none", value |-> AfterDiscovery(contact_input, outcome)]
    /\ rec_pc' = "returned"
    /\ UNCHANGED <<contact_input, dns_exists, validated, http_response, verifier_vars,
                   beacon_vars, rank_vars, score_vars, batch_vars, more_vars>>

\* find_single_email: return await process_record(beacon, contact)
RespondSingle ==
    /\ rec_pc = "returned"
    /\ http_response' = SingleResponse(rec_return)
    /\ rec_pc' = "responded"
    /\ UNCHANGED <<contact_input, dns_exists, validated, discovery, rec_return,
                   verifier_vars, beacon_vars, rank_vars, score_vars, batch_vars, more_vars>>

NextRecord == ValidateInput \/ CallFindEmail \/ RespondSingle

SpecRecord == InitRecord /\ [][NextRecord]_vars

(***************************************************************************)
(* find_emails_batch (app/core/api/v1/endpoints.py)                        *)
(***************************************************************************)

\* Settings.max_concurrency
max_concurrency == 8

\* Largest batch: one contact more than max_concurrency.
MaxBatch == max_concurrency + 1

\* Contact i of a batch: a contact with names and domain, told apart by other_fields.
BatchContact(i) ==
    [first_name |-> <<"a">>, last_name |-> <<"c">>,
     full_name |-> [given |-> FALSE, parts |-> <<>>],
     domain |-> [scheme |-> "", www |-> FALSE, host |-> <<"X", ".", "i", "o">>,
                 port |-> FALSE],
     other_fields |-> i]

BatchRequests == { [i \in 1..n |-> BatchContact(i)] : n \in 0..MaxBatch }

\* How find_email ends for the contacts of a batch.
BatchDiscoveryOutcomes == {[raised |-> "none"], [raised |-> "ValidationError"],
                           [raised |-> "SmtpError"]}

\* process_record(beacon, contact) as a whole: what the finished task hands to gather.
process_record(c, outcome) ==
    LET v == ValidatedInput(c)
    IN [state |-> "done", raised |-> "none",
        value |-> IF v.raised # "none" THEN RecordExcept(c, v.raised)
                  ELSE AfterDiscovery(c, outcome)]

\* A task that has not finished.
Task(state) == [state |-> state, raised |-> "none", value |-> "None"]

\* lines 66-92: the entry of final_results for one element of results_or_errors.
BatchEntry_ErrorsDropped(original_contact, result_or_error) ==
    IF result_or_error.raised # "none" THEN <<>>
    ELSE IF result_or_error.value.email_finding_error # "None" THEN <<>>
    ELSE <<result_or_error.value>>
BatchEntry(original_contact, result_or_error) ==
    IF result_or_error.raised # "none"
    THEN IF "Exception" \in Bases(result_or_error.raised)
         THEN <<ProcessingResult(original_contact, NoResults, FALSE, "None",
                                 IF "EmailSleuthError" \in Bases(result_or_error.raised)
                                 THEN "str(e)" ELSE "Processing failed")>>
         ELSE <<ProcessingResult(original_contact, NoResults, FALSE, "None",
                                 "Unexpected error during batch processing.")>>
    ELSE <<result_or_error.value>>

RECURSIVE CollectResults(_, _, _)
CollectResults(contacts, results_or_errors, i) ==
    IF i > Len(results_or_errors) THEN <<>>
    ELSE BatchEntry(contacts[i], results_or_errors[i])
         \o CollectResults(contacts, results_or_errors, i + 1)

Running == {i \in 1..Len(tasks) : tasks[i].state = "running"}

InitBatch ==
    /\ batch_pc = "start"
    /\ request \in BatchRequests
    /\ tasks = [i \in 1..Len(request) |-> Task("pending")]
    /\ final_results = <<>>
    /\ batch_response = "None"
    /\ VerifierIdle
    /\ BeaconIdle
    /\ RankIdle
    /\ ScoreIdle
    /\ RecordIdle
    /\ MoreIdle

\* lines 55-56
ReturnEmpty ==
    /\ batch_pc = "start"
    /\ request = <<>>
    /\ batch_response' = <<>>
    /\ batch_pc' = "responded"
    /\ UNCHANGED <<request, tasks, final_results, verifier_vars, beacon_vars, rank_vars,
                   score_vars, record_vars, more_vars>>

\* lines 59-63: asyncio.gather wraps every coroutine in a task; each task runs up to its
\* first suspension (the first network operation of find_email) in the same pass of the
\* event loop, before any of them can be resumed.
StartTasks ==
    /\ batch_pc = "start"
    /\ request # <<>>
    /\ tasks' = [i \in 1..Len(request) |-> Task("running")]
    /\ batch_pc' = "gather"
    /\ UNCHANGED <<request, final_results, batch_response, verifier_vars, beacon_vars,
                   rank_vars, score_vars, record_vars, more_vars>>

\* One process_record runs to its end.
FinishTask ==
    /\ batch_pc = "gather"
    /\ \E i \in Running :
         \E outcome \in BatchDiscoveryOutcomes :
            tasks' = [tasks EXCEPT ![i] = process_record(request[i], outcome)]
    /\ UNCHANGED <<batch_pc, request, final_results, batch_response, verifier_vars,
                   beacon_vars, rank_vars, score_vars, record_vars, more_vars>>

\* lines 63-94: gather returns when every task is done; the loop builds final_results.
CollectAndReturn ==
    /\ batch_pc = "gather"
    /\ Running = {}
    /\ final_results' = CollectResults(request, tasks, 1)
    /\ batch_response' = final_results'
    /\ batch_pc' = "responded"
    /\ UNCHANGED <<request, tasks, verifier_vars, beacon_vars, rank_vars, score_vars,
                   record_vars, more_vars>>

NextBatch == ReturnEmpty \/ StartTasks \/ FinishTask \/ CollectAndReturn

SpecBatch == InitBatch /\ [][NextBatch]_vars

(***************************************************************************)
(* Cancellation of the task that processes one contact                     *)
(***************************************************************************)

\* Number of candidates the loop of find_email goes through.
MaxCandidates == 2

\* The awaits of the task: network operations and sleeps.
NetworkAwaits ==
    {"http_get", "dns_query", "smtp_connect", "smtp_ehlo", "smtp_mail", "smtp_rcpt",
     "smtp_sample", "smtp_quit"}
SleepAwaits == {"scrape_sleep", "attempt_sleep", "request_sleep"}
Awaits == NetworkAwaits \cup SleepAwaits

\* The names an except clause looks up are bound in the module that holds it; the
\* import statements of beacon.py, processor.py, scraper.py and dns_utils.py bind
\* every name their except clauses use.
Namespace(module, lookups) ==
    IF module = "smtp_utils" THEN smtp_utils_imports \cup {"Exception", "OSError"}
    ELSE lookups

\* One except clause: the classes it names, the names Python looks up to evaluate it,
\* its module, its try statement, and where the task goes on when it has handled
\* the exception.
Clause(try, module, classes, lookups, resume) ==
    [try |-> try, module |-> module, classes |-> classes, lookups |-> lookups,
     resume |-> resume]

\* isinstance(exc, classes)
Catches(classes, exc) == Bases(exc) \cap classes # {}

\* The except clauses around each await, innermost first.
ScrapeLoopClauses ==
    << Clause("scraper:190", "scraper", {"RequestError", "HtmlParseError"},
              {"RequestError", "HtmlParseError"}, "after_scrape"),
       Clause("scraper:190", "scraper", {"Exception"}, {"Exception"}, "after_scrape") >>
FetchClauses ==
    << Clause("scraper:30", "scraper", {"TimeoutError"}, {"asyncio"}, "after_scrape"),
       Clause("scraper:30", "scraper", {"ClientResponseError"}, {"aiohttp"}, "after_scrape"),
       Clause("scraper:30", "scraper", {"ClientError"}, {"aiohttp"}, "after_scrape"),
       Clause("scraper:30", "scraper", {"Exception"}, {"Exception"}, "after_scrape") >>
FindEmailScrapeClauses ==
    << Clause("beacon:81", "beacon", {"EmailSleuthError"}, {"EmailSleuthError"},
              "after_scrape"),
       Clause("beacon:81", "beacon", {"Exception"}, {"Exception"}, "after_scrape") >>
QueryClauses ==
    << Clause("dns_utils:32", "dns_utils", {"TimeoutError"}, {"asyncio"},
              "after_verification"),
       Clause("dns_utils:32", "dns_utils", {"DNSError"}, {"aiodns"}, "after_verification"),
       Clause("dns_utils:32", "dns_utils", {"Exception"}, {"Exception"},
              "after_verification") >>
GetMailServerClauses ==
    << Clause("smtp_utils:57", "smtp_utils", {"SmtpError", "DnsError"},
              {"SmtpError", "DnsError"}, "after_verification") >>
AttemptClauses ==
    << Clause("smtp_utils:80", "smtp_utils",
              {"SMTPConnectError", "SMTPHeloError", "SMTPResponseException", "TimeoutError",
               "OSError"}, {"aiosmtplib", "asyncio", "OSError"}, "after_attempt"),
       Clause("smtp_utils:80", "smtp_utils", {"Exception"}, {"Exception"},
              "after_verification") >>
QuitClauses ==
    << Clause("smtp_utils:224", "smtp_utils", {"SMTPException", "TimeoutError", "OSError"},
              {"aiosmtplib", "asyncio", "OSError"}, "after_quit"),
       Clause("smtp_utils:224", "smtp_utils", {"Exception"}, {"Exception"}, "after_quit") >>
RetryLoopClauses ==
    << Clause("smtp_utils:255", "smtp_utils", {"SmtpError"}, {"SmtpError"},
              "after_verification"),
       Clause("smtp_utils:255", "smtp_utils", {"Exception"}, {"Exception"},
              "after_verification") >>
FindEmailVerifyClauses ==
    << Clause("beacon:204", "beacon", {"EmailSleuthError"}, {"EmailSleuthError"},
              "after_verification"),
       Clause("beacon:204", "beacon", {"Exception"}, {"Exception"}, "after_verification") >>
ProcessRecordClauses ==
    << Clause("processor:41", "processor",
              {"ValidationError", "InsufficientInputError", "DomainExtractionError",
               "UrlParseError"},
              {"ValidationError", "InsufficientInputError", "DomainExtractionError",
               "UrlParseError"}, "return_skipped"),
       Clause("processor:41", "processor", {"EmailSleuthError"}, {"EmailSleuthError"},
              "return_error"),
       Clause("processor:41", "processor", {"Exception"}, {"Exception"}, "return_error") >>

SmtpCommandAwaits == {"smtp_connect", "smtp_ehlo", "smtp_mail", "smtp_rcpt", "smtp_sample"}

HandlerStack(at) ==
    CASE at = "scrape_sleep" ->
           ScrapeLoopClauses \o FindEmailScrapeClauses \o ProcessRecordClauses
      [] at = "http_get" ->
           FetchClauses \o ScrapeLoopClauses \o FindEmailScrapeClauses
           \o ProcessRecordClauses
      [] at = "dns_query" ->
           QueryClauses \o GetMailServerClauses \o FindEmailVerifyClauses
           \o ProcessRecordClauses
      [] at \in SmtpCommandAwaits ->
           AttemptClauses \o RetryLoopClauses \o FindEmailVerifyClauses
           \o ProcessRecordClauses
      [] at = "smtp_quit" ->
           QuitClauses \o RetryLoopClauses \o FindEmailVerifyClauses
           \o ProcessRecordClauses
      [] at = "attempt_sleep" -> FindEmailVerifyClauses \o ProcessRecordClauses
      [] at = "request_sleep" -> ProcessRecordClauses

\* An exception travels outwards through the clauses from clause i on.  A clause whose
\* names are not all bound raises NameError when Python evaluates it, and that
\* exception leaves the clause's try statement in place of the first one.
RECURSIVE Unwind(_, _, _, _)
Unwind(exc, stack, i, left_try) ==
    IF i > Len(stack) THEN [caught |-> FALSE, exc |-> exc, resume |-> "raised"]
    ELSE LET c == stack[i]
         IN IF c.try = left_try THEN Unwind(exc, stack, i + 1, left_try)
            ELSE IF ~ (c.lookups \subseteq Namespace(c.module, c.lookups))
            THEN Unwind("NameError", stack, i + 1, c.try)
            ELSE IF Catches(c.classes, exc)
            THEN [caught |-> TRUE, exc |-> exc, resume |-> c.resume]
            ELSE Unwind(exc, stack, i + 1, left_try)

NoPending == [caught |-> TRUE, exc |-> "none", resume |-> "none"]
Normally(resume) == [caught |-> TRUE, exc |-> "none", resume |-> resume]

\* Where the task is next, from a point between two awaits: the await it reaches or
\* the way it ends.  c and a are the positions of the two loops.
Position(at, c, a, outcome) ==
    [task_pc |-> at, candidate_no |-> c, attempt_no |-> a, task_outcome |-> outcome]
Reach(label, c, a) ==
    CASE label = "after_scrape" -> {Position("dns_query", 1, 0, "None")}
      [] label = "after_attempt" ->
           (IF a + 1 < max_verification_attempts
            THEN {Position("attempt_sleep", c, a, "None")} ELSE {})
           \cup {Position("request_sleep", c, a, "None")}
      [] label = "after_verification" -> {Position("request_sleep", c, a, "None")}
      [] label = "next_candidate" ->
           IF c < MaxCandidates THEN {Position("dns_query", c + 1, 0, "None")}
           ELSE {Position("returned", c, a, "EmailResult")}
      [] label = "return_skipped" -> {Position("returned", c, a, "skipped")}
      [] label = "return_error" -> {Position("returned", c, a, "error")}
      [] label = "raised" -> {Position("raised", c, a, "exception")}

\* What follows an unwinding: the handler's continuation, or the exception leaves
\* process_record (a CancelledError ends the task as cancelled).
After(u, c, a) ==
    IF u.caught THEN Reach(u.resume, c, a)
    ELSE IF u.exc = "CancelledError" THEN {Position("cancelled", c, a, "CancelledError")}
    ELSE {Position("raised", c, a, u.exc)}

\* The awaited operation ends (ok) or raises (exc): where the task is suspended next,
\* and what is left to do after a finally clause.
Resume(at, c, a, pending, exc) ==
    LET u == Unwind(exc, HandlerStack(at), 1, "none")
        To(positions, p) == {[next |-> n, pending |-> p] : n \in positions}
    IN CASE at = "scrape_sleep" ->
              IF exc = "none" THEN To({Position("http_get", c, a, "None")}, NoPending)
              ELSE To(After(u, c, a), NoPending)
         [] at = "http_get" ->
              IF exc = "none" THEN To(Reach("after_scrape", c, a), NoPending)
              ELSE To(After(u, c, a), NoPending)
         [] at = "dns_query" ->
              IF exc = "none" THEN To({Position("smtp_connect", c, a, "None")}, NoPending)
              ELSE To(After(u, c, a), NoPending)
         [] at = "smtp_connect" ->
              \* smtp_client.is_connected is false in the finally clause
              IF exc = "none" THEN To({Position("smtp_ehlo", c, a, "None")}, NoPending)
              ELSE To(After(u, c, a), NoPending)
         [] at \in {"smtp_ehlo", "smtp_mail", "smtp_rcpt", "smtp_sample"} ->
              \* the next command, or the finally clause: QUIT when still connected
              (IF exc = "none" /\ at # "smtp_sample"
               THEN To({Position(CASE at = "smtp_ehlo" -> "smtp_mail"
                                   [] at = "smtp_mail" -> "smtp_rcpt"
                                   [] at = "smtp_rcpt" -> "smtp_sample", c, a, "None")},
                       NoPending)
               ELSE {})
              \cup (IF exc = "none" /\ at \in {"smtp_mail", "smtp_rcpt", "smtp_sample"}
                    THEN To({Position("smtp_quit", c, a, "None")}, Normally("after_attempt"))
                    ELSE {})
              \cup (IF exc # "none"
                    THEN To({Position("smtp_quit", c, a, "None")}, u)
                         \cup To(After(u, c, a), NoPending)
                    ELSE {})
         [] at = "smtp_quit" ->
              \* an exception QUIT raises is dropped when a clause of 226-230 catches
              \* it; otherwise it replaces what was pending
              IF exc = "none" \/ (u.caught /\ u.resume = "after_quit")
              THEN To(After(pending, c, a), NoPending)
              ELSE To(After(u, c, a), NoPending)
         [] at = "attempt_sleep" ->
              IF exc = "none" THEN To({Position("smtp_connect", c, a + 1, "None")}, NoPending)
              ELSE To(After(u, c, a), NoPending)
         [] at = "request_sleep" ->
              IF exc = "none" THEN To(Reach("next_candidate", c, a), NoPending)
              ELSE To(After(u, c, a), NoPending)

\* What an awaited operation can raise by itself.
OwnErrors(at) ==
    CASE at = "http_get" -> {"ClientError", "TimeoutError"}
      [] at = "dns_query" -> {"NxDomainError"}
      [] at \in SmtpCommandAwaits -> {"SMTPResponseException", "TimeoutError"}
      [] at = "smtp_quit" -> {"TimeoutError"}
      [] OTHER -> {}

InitCancel ==
    /\ task_pc = "scrape_sleep"
    /\ candidate_no = 0
    /\ attempt_no = 0
    /\ pending_exc = NoPending
    /\ cancel_requested = FALSE
    /\ ops_after_cancel = <<>>
    /\ task_outcome = "None"
    /\ VerifierIdle
    /\ BeaconIdle
    /\ RankIdle
    /\ ScoreIdle
    /\ RecordIdle
    /\ BatchIdle
    /\ SettingsIdle
    /\ EnvelopeIdle
    /\ ExtraIdle

\* The task moves from one await to the next one it reaches, or ends.
MoveTo(r, cancelled) ==
    /\ task_pc' = r.next.task_pc
    /\ candidate_no' = r.next.candidate_no
    /\ attempt_no' = r.next.attempt_no
    /\ task_outcome' = r.next.task_outcome
    /\ pending_exc' = r.pending
    /\ ops_after_cancel' =
         IF cancelled /\ r.next.task_pc \in NetworkAwaits
         THEN Append(ops_after_cancel, r.next.task_pc)
         ELSE ops_after_cancel

\* The operation the task awaits ends or fails, and the task runs to its next await.
OperationEnds ==
    /\ task_pc \in Awaits
    /\ \E exc \in {"none"} \cup OwnErrors(task_pc) :
         \E r \in Resume(task_pc, candidate_no, attempt_no, pending_exc, exc) :
            MoveTo(r, cancel_requested)
    /\ UNCHANGED <<cancel_requested, verifier_vars, beacon_vars, rank_vars, score_vars,
                   record_vars, batch_vars, settings_vars, envelope_vars,
                   extra_vars>>

\* The caller cancels the task: CancelledError is raised at the await it is
\* suspended at, and the task runs on to its next await or ends.
CancelTask ==
    /\ task_pc \in Awaits
    /\ ~ cancel_requested
    /\ cancel_requested' = TRUE
    /\ \E r \in Resume(task_pc, candidate_no, attempt_no, pending_exc, "CancelledError") :
         MoveTo(r, TRUE)
    /\ UNCHANGED <<verifier_vars, beacon_vars, rank_vars, score_vars, record_vars,
                   batch_vars, settings_vars, envelope_vars,
                   extra_vars>>

NextCancel == OperationEnds \/ CancelTask

SpecCancel == InitCancel /\ [][NextCancel]_vars

(***************************************************************************)
(* Settings (app/config.py): field validation and the root validator       *)
(***************************************************************************)

\* The settings the root validator checks.  Sleeps are in tenths of a second.
SettingsKeys ==
    {"confidence_threshold", "generic_confidence_threshold", "min_sleep_between_requests",
     "max_sleep_between_requests", "dns_servers", "max_concurrency"}

DEFAULT_DNS_SERVERS == <<"8.8.8.8", "8.8.4.4", "1.1.1.1", "1.0.0.1">>

\* Field(...).default; a field declared with default_factory has default None.
FieldDefaults ==
    [confidence_threshold |-> confidence_threshold,
     generic_confidence_threshold |-> generic_confidence_threshold,
     min_sleep_between_requests |-> 1, max_sleep_between_requests |-> 5,
     dns_servers |-> "None", max_concurrency |-> max_concurrency]

\* The values after defaults, init arguments and environment variables.
InitValues ==
    [confidence_threshold : {confidence_threshold, 0, 11},
     generic_confidence_threshold : {generic_confidence_threshold, 3},
     min_sleep_between_requests : {1, 6},
     max_sleep_between_requests : {5, 0},
     dns_servers : {DEFAULT_DNS_SERVERS, <<>>},
     max_concurrency : {max_concurrency, 1, 0}]

\* The settings a TOML file gives, or no such key in the file.
NoKey == [given |-> FALSE, value |-> 0]
Given(S) == {[given |-> TRUE, value |-> x] : x \in S}
TomlValues ==
    [confidence_threshold : {NoKey} \cup Given({-1, 11}),
     generic_confidence_threshold : {NoKey} \cup Given({2, 12}),
     min_sleep_between_requests : {NoKey} \cup Given({7}),
     max_sleep_between_requests : {NoKey} \cup Given({2}),
     dns_servers : {NoKey} \cup Given({<<>>}),
     max_concurrency : {NoKey} \cup Given({0, -1})]

\* The constraints of the Field declarations (ge, le).
FieldsValid(v) ==
    /\ 0 <= v.confidence_threshold /\ v.confidence_threshold <= 10
    /\ 0 <= v.generic_confidence_threshold /\ v.generic_confidence_threshold <= 10
    /\ v.min_sleep_between_requests >= 0
    /\ v.max_sleep_between_requests >= 0
    /\ v.max_concurrency >= 1

\* Lines 139-153: a TOML value replaces a value that equals the field's default.
ApplyTomlKey(v, toml, key) ==
    IF ~ toml[key].given THEN v[key]
    ELSE IF key # "dns_servers" /\ v[key] = FieldDefaults[key] THEN toml[key].value
    ELSE v[key]
ApplyToml(v, toml) == [key \in SettingsKeys |-> ApplyTomlKey(v, toml, key)]

\* Lines 155-182, "Final Validations".
FinalValidations(v) ==
    LET min_sleep == v.min_sleep_between_requests
        max_sleep == IF min_sleep > v.max_sleep_between_requests THEN min_sleep
                     ELSE v.max_sleep_between_requests
        conf_thresh == IF v.confidence_threshold > 10 THEN 10 ELSE v.confidence_threshold
        gen_conf_thresh == IF v.generic_confidence_threshold > 10 THEN 10
                           ELSE v.generic_confidence_threshold
    IN [confidence_threshold |-> conf_thresh,
        generic_confidence_threshold |->
            IF gen_conf_thresh < conf_thresh THEN conf_thresh ELSE gen_conf_thresh,
        min_sleep_between_requests |-> min_sleep,
        max_sleep_between_requests |-> max_sleep,
        sleep_between_requests |-> <<min_sleep, max_sleep>>,
        dns_servers |-> IF v.dns_servers = <<>> THEN DEFAULT_DNS_SERVERS ELSE v.dns_servers,
        max_concurrency |-> IF v.max_concurrency = 0 THEN 1 ELSE v.max_concurrency]

InitSettings ==
    /\ cfg_pc = "fields"
    /\ values \in InitValues
    /\ toml_settings \in TomlValues
    /\ VerifierIdle
    /\ BeaconIdle
    /\ RankIdle
    /\ ScoreIdle
    /\ RecordIdle
    /\ BatchIdle
    /\ CancelIdle
    /\ EnvelopeIdle
    /\ ExtraIdle

\* pydantic validates the fields; the root validator is skipped on failure.
ValidateFields ==
    /\ cfg_pc = "fields"
    /\ cfg_pc' = IF FieldsValid(values) THEN "toml" ELSE "failed"
    /\ UNCHANGED <<values, toml_settings, verifier_vars, beacon_vars, rank_vars,
                   score_vars, record_vars, batch_vars, cancel_vars, envelope_vars,
                   extra_vars>>

\* load_from_toml_and_validate, first part: the TOML layer.
LoadToml ==
    /\ cfg_pc = "toml"
    /\ values' = ApplyToml(values, toml_settings)
    /\ cfg_pc' = "final"
    /\ UNCHANGED <<toml_settings, verifier_vars, beacon_vars, rank_vars, score_vars,
                   record_vars, batch_vars, cancel_vars, envelope_vars,
                   extra_vars>>

\* load_from_toml_and_validate, second part.
Validate ==
    /\ cfg_pc = "final"
    /\ values' = FinalValidations(values)
    /\ cfg_pc' = "validated"
    /\ UNCHANGED <<toml_settings, verifier_vars, beacon_vars, rank_vars, score_vars,
                   record_vars, batch_vars, cancel_vars, envelope_vars,
                   extra_vars>>

NextSettings == ValidateFields \/ LoadToml \/ Validate

SpecSettings == InitSettings /\ [][NextSettings]_vars

(***************************************************************************)
(* The output envelope (app/models.py, ProcessingResult)                   *)
(***************************************************************************)

MaxFound == 6

\* The values of Settings.max_alternatives the envelope is built under.
ConfiguredAlternatives == {0, 2, 5, 7}

EnvelopeDomain == <<"x", ".", "i", "o">>

\* The i-th candidate address of a contact: i letters before the @.
EnvelopeEmail(i) == At([k \in 1..i |-> "a"], EnvelopeDomain)

\* The candidates find_email stored (final confidence > 0), in the order of the loop.
\* "rising" confidences make the sort reverse the list.
Survivors(n, order) ==
    [i \in 1..n |->
        FoundEmailData(EnvelopeEmail(i),
                       IF order = "rising" THEN MinOf(10, i + 2) ELSE MaxOf(1, 9 - i),
                       FALSE, i % 3 = 0, "unknown")]

\* def Some(value): return value is not None
Some(value) == value # None

\* Python's != between the bool Some() returns and an email (a str) or None: a bool
\* never equals either.
BoolDiffers(flag, other) == TRUE

Take(list, n) == SubSeq(list, 1, MinOf(n, Len(list)))

\* [e.email for e in results.found_emails if Some(e.email) != results.most_likely_email]
Alternatives(res) ==
    LET keep(e) == BoolDiffers(Some(e.email), res.most_likely_email)
        kept == SelectSeq(res.found_emails, keep)
    IN [i \in 1..Len(kept) |-> kept[i].email]

\* populate_convenience_fields
populate_convenience_fields(res) ==
    [email |-> res.most_likely_email,
     email_confidence |-> IF res.most_likely_email # None THEN res.confidence_score ELSE 0,
     email_alternatives |-> Take(Alternatives(res), 5),
     email_verification_failed |-> res.most_likely_email = None /\ res.found_emails # <<>>]

InitEnvelope ==
    /\ env_pc = "select"
    /\ configured_max_alternatives \in ConfiguredAlternatives
    /\ \E n \in 0..MaxFound, order \in {"rising", "falling"} :
          discovery_results = [verified_emails_data |-> Survivors(n, order),
                               found_emails |-> <<>>, most_likely_email |-> None,
                               confidence_score |-> 0]
    /\ envelope = <<>>
    /\ VerifierIdle
    /\ BeaconIdle
    /\ RankIdle
    /\ ScoreIdle
    /\ RecordIdle
    /\ BatchIdle
    /\ CancelIdle
    /\ SettingsIdle
    /\ ExtraIdle

\* find_email, "5. Select Best Email": the sort and the selection.
SortAndSelect ==
    /\ env_pc = "select"
    /\ LET found == SortDescending(discovery_results.verified_emails_data)
           best == SelectBest(found)
       IN discovery_results' = [discovery_results EXCEPT
                                   !.found_emails = found,
                                   !.most_likely_email = best.email,
                                   !.confidence_score = best.score]
    /\ env_pc' = "envelope"
    /\ UNCHANGED <<configured_max_alternatives, envelope, verifier_vars, beacon_vars,
                   rank_vars, score_vars, record_vars, batch_vars, cancel_vars,
                   settings_vars, extra_vars>>

\* process_record: ProcessingResult(contact_input=..., email_discovery_results=email_result)
BuildEnvelope ==
    /\ env_pc = "envelope"
    /\ envelope' = populate_convenience_fields(discovery_results)
    /\ env_pc' = "done"
    /\ UNCHANGED <<configured_max_alternatives, discovery_results, verifier_vars,
                   beacon_vars, rank_vars, score_vars, record_vars, batch_vars,
                   cancel_vars, settings_vars,
                   extra_vars>>

NextEnvelope == SortAndSelect \/ BuildEnvelope

SpecEnvelope == InitEnvelope /\ [][NextEnvelope]_vars

(***************************************************************************)
(* resolve_mail_server (app/core/dns_utils.py)                             *)
(***************************************************************************)

MaxMx == 2

\* What _query_with_timeout hands to its caller: the records, or one of the errors it
\* maps the resolver's failures to.
Records(list) == [error |-> "none", records |-> list]
QueryError(e) == [error |-> e, records |-> <<>>]
QueryErrors == {"NoDnsRecordsError", "NxDomainError", "DnsTimeoutError", "DnsError"}

\* MX hosts: with and without the trailing dot, and the root "." of a null MX.
MxHosts == { <<"m", ".">>, <<"n">>, <<".">> }
MxPriorities == {0, 10}
MxRecords == [host : MxHosts, priority : MxPriorities]
MxRecordLists == UNION { [1..n -> MxRecords] : n \in 0..MaxMx }
MxAnswers == {Records(l) : l \in MxRecordLists} \cup {QueryError(e) : e \in QueryErrors}

AHosts == { <<"1">>, <<"2">> }
AAnswers ==
    {Records(<<>>)} \cup {Records(<<[host |-> h]>>) : h \in AHosts}
    \cup {Records(<<[host |-> <<"1">>], [host |-> <<"2">>]>>)}
    \cup {QueryError(e) : e \in QueryErrors}

MailServer(exchange, preference) ==
    [raised |-> "none", exchange |-> exchange, preference |-> preference]
DnsRaise(e) == [raised |-> e, exchange |-> <<>>, preference |-> 0]
NoDnsReturn == [raised |-> "na", exchange |-> "", preference |-> 0]

\* str.rstrip('.')
RECURSIVE RStripDots(_)
RStripDots(h) ==
    IF h # <<>> /\ h[Len(h)] = "." THEN RStripDots(SubSeq(h, 1, Len(h) - 1)) ELSE h

\* mx_records.sort(key=lambda r: r.priority): a stable sort, ascending.
RECURSIVE InsertByPriority(_, _)
InsertByPriority(sorted, r) ==
    IF sorted = <<>> THEN <<r>>
    ELSE IF sorted[Len(sorted)].priority <= r.priority THEN Append(sorted, r)
    ELSE Append(InsertByPriority(SubSeq(sorted, 1, Len(sorted) - 1), r), sorted[Len(sorted)])
RECURSIVE SortByPriority(_)
SortByPriority(list) ==
    IF list = <<>> THEN <<>>
    ELSE InsertByPriority(SortByPriority(SubSeq(list, 1, Len(list) - 1)), list[Len(list)])

\* The exception classes named by an except clause catch e.
DnsCatches(classes, e) == Bases(e) \cap classes # {}

\* The try block of resolve_mail_server (lines 105-125): what it returns, the exception
\* it raises, or the call of the A fallback for an empty answer (line 111).
MxTryBlock(ans) ==
    IF ans.error # "none" THEN [raised |-> ans.error, value |-> NoDnsReturn, fallback |-> FALSE]
    ELSE IF ans.records = <<>> THEN [raised |-> "none", value |-> NoDnsReturn, fallback |-> TRUE]
    ELSE LET best_mx == SortByPriority(ans.records)[1]
             exchange == RStripDots(best_mx.host)
         IN IF exchange = <<>>
            THEN [raised |-> "NoDnsRecordsError", value |-> NoDnsReturn, fallback |-> FALSE]
            ELSE [raised |-> "none", value |-> MailServer(exchange, best_mx.priority),
                  fallback |-> FALSE]

\* The except clauses of resolve_mail_server (lines 127-133) applied to the try block:
\* the next step is the A fallback, a return or a raise.
AfterMx(ans) ==
    LET t == MxTryBlock(ans)
    IN IF t.raised = "none"
       THEN IF t.fallback THEN [next |-> "a", ret |-> NoDnsReturn]
            ELSE [next |-> "returned", ret |-> t.value]
       ELSE IF DnsCatches({"NoDnsRecordsError"}, t.raised)
       THEN [next |-> "a", ret |-> NoDnsReturn]
       ELSE [next |-> "raised", ret |-> DnsRaise(t.raised)]

\* resolve_a_record_fallback: both except clauses re-raise.
resolve_a_record_fallback(ans) ==
    IF ans.error # "none" THEN DnsRaise(ans.error)
    ELSE IF ans.records # <<>> THEN MailServer(ans.records[1].host, 65535)
    ELSE DnsRaise("NoDnsRecordsError")

InitDns ==
    /\ dns_pc = "mx"
    /\ mx_answer \in MxAnswers
    /\ a_answer \in AAnswers
    /\ dns_queries = <<>>
    /\ dns_return = NoDnsReturn
    /\ VerifierIdle
    /\ BeaconIdle
    /\ OthersIdle
    /\ DialogIdle
    /\ ScraperIdle

\* The MX query and what resolve_mail_server does with its answer.
QueryMx ==
    /\ dns_pc = "mx"
    /\ dns_queries' = Append(dns_queries, "MX")
    /\ dns_pc' = AfterMx(mx_answer).next
    /\ dns_return' = AfterMx(mx_answer).ret
    /\ UNCHANGED <<mx_answer, a_answer, verifier_vars, beacon_vars, other_vars,
                   dialog_vars, scraper_vars>>

\* The A query of the fallback.
QueryA ==
    /\ dns_pc = "a"
    /\ dns_queries' = Append(dns_queries, "A")
    /\ dns_return' = resolve_a_record_fallback(a_answer)
    /\ dns_pc' = IF resolve_a_record_fallback(a_answer).raised = "none"
                 THEN "returned" ELSE "raised"
    /\ UNCHANGED <<mx_answer, a_answer, verifier_vars, beacon_vars, other_vars,
                   dialog_vars, scraper_vars>>

NextDns == QueryMx \/ QueryA

SpecDns == InitDns /\ [][NextDns]_vars

(***************************************************************************)
(* Scraper.scrape_website_for_emails (app/core/scraper.py)                 *)
(***************************************************************************)

MaxUrls == 3

\* The normalized base URL and pages of settings.common_pages_to_scrape joined to it.
BaseUrl == "https://x.io"
PageUrls == {"https://x.io/contact", "https://x.io/about"}

\* urls_to_visit is a set: the for statement iterates it in some order, each URL once.
VisitOrders ==
    { o \in UNION { [1..n -> {BaseUrl} \cup PageUrls] : n \in 1..MaxUrls } :
        /\ \A i, j \in 1..Len(o) : o[i] = o[j] => i = j
        /\ \E i \in 1..Len(o) : o[i] = BaseUrl }

\* What a page can hold.
PageEmails ==
    { {}, {At(<<"a">>, XIo)}, {At(<<"c">>, XIo), At(<<"i">>, YIo)} }

\* What the GET of one page meets: the response, or the failure.
Response(kind, emails) == [kind |-> kind, emails |-> emails]
PageResponses ==
    { Response("html", e) : e \in PageEmails }
    \cup { Response(k, {}) :
             k \in {"empty_html", "http_error", "timeout", "client_error", "not_html",
                    "read_error", "unparsable_html", "unexpected_error"} }

\* _fetch_page: the page's text, None, or the exception its except clauses let out.
_fetch_page(r) ==
    CASE r.kind \in {"html", "unparsable_html"} -> [raised |-> "none", html |-> "text"]
      [] r.kind = "empty_html" -> [raised |-> "none", html |-> ""]
      [] r.kind = "not_html" -> [raised |-> "none", html |-> "None"]
      [] r.kind = "timeout" -> [raised |-> "none", html |-> "None"]
      [] r.kind = "http_error" -> [raised |-> "none", html |-> "None"]
      [] r.kind = "client_error" -> [raised |-> "RequestError", html |-> "None"]
      \* HtmlParseError of line 61 is caught by `except Exception` of line 76
      [] r.kind = "read_error" -> [raised |-> "RequestError", html |-> "None"]
      [] r.kind = "unexpected_error" -> [raised |-> "RequestError", html |-> "None"]

\* _extract_emails_from_html
_extract_emails_from_html(r) ==
    IF r.kind = "unparsable_html" THEN [raised |-> "HtmlParseError", emails |-> {}]
    ELSE [raised |-> "none", emails |-> r.emails]

\* A loop whose except clause lets the error of a page end the scrape.
LoopBodyOfScrape_ErrorEndsScrape(r) ==
    LET page == _fetch_page(r)
        found == _extract_emails_from_html(r)
    IN IF page.raised # "none"
       THEN [raised |-> page.raised, successful |-> 0, failed |-> 0, emails |-> {}]
       ELSE IF page.html \in {"None", ""}
       THEN [raised |-> "none", successful |-> 0, failed |-> 1, emails |-> {}]
       ELSE IF found.raised # "none"
       THEN [raised |-> found.raised, successful |-> 1, failed |-> 0, emails |-> {}]
       ELSE [raised |-> "none", successful |-> 1, failed |-> 0, emails |-> found.emails]

\* The body of `for page_url in urls_to_visit` (lines 186-208) for one page: what it
\* adds to successful_pages, failed_pages and all_found_emails, and the exception that
\* leaves it (none: both except clauses only count the failure).
LoopBodyOfScrape(r) ==
    LET page == _fetch_page(r)
        found == _extract_emails_from_html(r)
    IN IF page.raised # "none"
       THEN [raised |-> "none", successful |-> 0, failed |-> 1, emails |-> {}]
       ELSE IF page.html \in {"None", ""}
       THEN [raised |-> "none", successful |-> 0, failed |-> 1, emails |-> {}]
       ELSE IF found.raised # "none"
       THEN [raised |-> "none", successful |-> 1, failed |-> 1, emails |-> {}]
       ELSE [raised |-> "none", successful |-> 1, failed |-> 0, emails |-> found.emails]

NoScrapeReturn == [raised |-> "na", emails |-> <<>>]

InitScraper ==
    /\ scr_pc = "loop"
    /\ urls_to_visit \in VisitOrders
    /\ url_no = 1
    /\ fetch_log = <<>>
    /\ all_found_emails = {}
    /\ successful_pages = 0
    /\ failed_pages = 0
    /\ scrape_return = NoScrapeReturn
    /\ VerifierIdle
    /\ BeaconIdle
    /\ OthersIdle
    /\ DialogIdle
    /\ DnsIdle

\* One iteration: the sleep, the GET of the page and the extraction.
VisitPage ==
    /\ scr_pc = "loop"
    /\ url_no <= Len(urls_to_visit)
    /\ \E r \in PageResponses :
         LET b == LoopBodyOfScrape(r)
         IN /\ fetch_log' = Append(fetch_log, [url |-> urls_to_visit[url_no],
                                               response |-> r])
            /\ all_found_emails' = all_found_emails \cup b.emails
            /\ successful_pages' = successful_pages + b.successful
            /\ failed_pages' = failed_pages + b.failed
            /\ IF b.raised # "none"
               THEN /\ scr_pc' = "raised"
                    /\ scrape_return' = [raised |-> b.raised, emails |-> <<>>]
                    /\ url_no' = url_no
               ELSE /\ scr_pc' = "loop"
                    /\ scrape_return' = scrape_return
                    /\ url_no' = url_no + 1
    /\ UNCHANGED <<urls_to_visit, verifier_vars, beacon_vars, other_vars, dialog_vars,
                   dns_vars>>

\* After the loop: final_emails = sorted(list(all_found_emails)).
ReturnEmails ==
    /\ scr_pc = "loop"
    /\ url_no > Len(urls_to_visit)
    /\ scrape_return' = [raised |-> "none", emails |-> SortedList(all_found_emails)]
    /\ scr_pc' = "returned"
    /\ UNCHANGED <<urls_to_visit, url_no, fetch_log, all_found_emails, successful_pages,
                   failed_pages, verifier_vars, beacon_vars, other_vars, dialog_vars,
                   dns_vars>>

NextScraper == VisitPage \/ ReturnEmails

SpecScraper == InitScraper /\ [][NextScraper]_vars

(***************************************************************************)
(* Concurrent discoveries: the awaits of find_email's candidate loop       *)
(* (app/core/beacon.py) and of verify_email_with_retries, for the calls    *)
(* that find_emails_batch gathers (app/core/api/v1/endpoints.py)           *)
(***************************************************************************)

NumDiscoveries == 2
NumCandidates == 2

Discoveries == 1..NumDiscoveries
CandidateNos == 1..NumCandidates

\* One running find_email: where its coroutine stands, the candidate of the current
\* iteration, the candidates assessed and adjusted so far, and for each candidate its
\* call of verify_email_with_retries (none, resolve, attempt, dialog, retry_sleep,
\* returned) with the attempt number.
StartedDiscovery ==
    [pc |-> "assess", cand |-> 1, assessed |-> {}, adjusted |-> {},
     verif |-> [k \in CandidateNos |-> "none"],
     attempt |-> [k \in CandidateNos |-> 0]]

\* A loop that starts the verification as a task and goes on without waiting for it.
AwaitVerification_AsTask(d) == [d EXCEPT !.pc = "sleep"]

\* `await self.smtp_verifier.verify_email_with_retries(email)` (line 206): the
\* coroutine of the discovery is suspended until the call returns or raises.
AwaitVerification(d) == [d EXCEPT !.pc = "awaiting"]

InitDialogs ==
    /\ discoveries = [i \in Discoveries |-> StartedDiscovery]
    /\ VerifierIdle
    /\ BeaconIdle
    /\ OthersIdle
    /\ ScraperIdle
    /\ DnsIdle

DialogFrame == UNCHANGED <<verifier_vars, beacon_vars, other_vars, scraper_vars, dns_vars>>

\* The loop body up to should_verify_smtp (lines 150-197), then either the call of
\* the verifier or, without verification, the storing of the candidate (lines 235-259).
Assess(i) ==
    LET d == discoveries[i]
        seen == [d EXCEPT !.assessed = @ \cup {d.cand}]
    IN /\ d.pc = "assess"
       /\ \E should_verify \in BOOLEAN :
            discoveries' = [discoveries EXCEPT ![i] =
                IF should_verify
                THEN AwaitVerification([seen EXCEPT !.verif[d.cand] = "resolve"])
                ELSE [seen EXCEPT !.pc = "next", !.adjusted = @ \cup {d.cand}]]
       /\ DialogFrame

\* _get_mail_server (smtp_utils.py:244-247): no server ends the call.
Resolve(i, k) ==
    /\ discoveries[i].verif[k] = "resolve"
    /\ \E found \in BOOLEAN :
         discoveries' = [discoveries EXCEPT ![i].verif[k] =
                            IF found THEN "attempt" ELSE "returned",
                         ![i].attempt[k] = IF found THEN 1 ELSE 0]
    /\ DialogFrame

\* _verify_single_attempt connects (smtp_utils.py:88-94): the dialog is open.
OpenDialog(i, k) ==
    /\ discoveries[i].verif[k] = "attempt"
    /\ discoveries' = [discoveries EXCEPT ![i].verif[k] = "dialog"]
    /\ DialogFrame

\* The attempt ends, its finally block has closed the dialog (smtp_utils.py:222-229);
\* the loop of verify_email_with_retries returns (or the attempt raises), or sleeps
\* before the next attempt (lines 259-288).
CloseDialog(i, k) ==
    /\ discoveries[i].verif[k] = "dialog"
    /\ \E again \in BOOLEAN :
         discoveries' = [discoveries EXCEPT ![i].verif[k] =
            IF again /\ MoreAttempts(discoveries[i].attempt[k] - 1)
            THEN "retry_sleep" ELSE "returned"]
    /\ DialogFrame

\* The sleep between two attempts (smtp_utils.py:288) is over.
RetrySleepOver(i, k) ==
    /\ discoveries[i].verif[k] = "retry_sleep"
    /\ discoveries' = [discoveries EXCEPT ![i].verif[k] = "attempt",
                                          ![i].attempt[k] = @ + 1]
    /\ DialogFrame

\* The awaited call is back: the confidence adjustment or the except clause
\* (beacon.py:207-233), then the storing of the candidate (lines 245-259).
Adjust(i) ==
    LET d == discoveries[i]
    IN /\ d.pc = "awaiting"
       /\ d.verif[d.cand] = "returned"
       /\ discoveries' = [discoveries EXCEPT ![i].pc = "sleep",
                                             ![i].adjusted = @ \cup {d.cand}]
       /\ DialogFrame

\* The sleep after a verified candidate (lines 262-269) is over, or there was none:
\* the next iteration, or the end of the loop.
NextCandidate(i) ==
    LET d == discoveries[i]
    IN /\ d.pc \in {"sleep", "next"}
       /\ discoveries' = [discoveries EXCEPT ![i] =
             IF d.cand < NumCandidates
             THEN [d EXCEPT !.pc = "assess", !.cand = @ + 1]
             ELSE [d EXCEPT !.pc = "done"]]
       /\ DialogFrame

NextDialogs ==
    \E i \in Discoveries :
        \/ Assess(i)
        \/ Adjust(i)
        \/ NextCandidate(i)
        \/ \E k \in CandidateNos :
              \/ Resolve(i, k)
              \/ OpenDialog(i, k)
              \/ CloseDialog(i, k)
              \/ RetrySleepOver(i, k)

SpecDialogs == InitDialogs /\ [][NextDialogs]_vars

(***************************************************************************)
(* One find_email from its scrape to its return: the scraper's loop, then  *)
(* the candidate loop with its verifications                               *)
(***************************************************************************)

InitTermination ==
    /\ scr_pc = "loop"
    /\ urls_to_visit \in VisitOrders
    /\ url_no = 1
    /\ fetch_log = <<>>
    /\ all_found_emails = {}
    /\ successful_pages = 0
    /\ failed_pages = 0
    /\ scrape_return = NoScrapeReturn
    /\ discoveries = <<StartedDiscovery>>
    /\ VerifierIdle
    /\ BeaconIdle
    /\ OthersIdle
    /\ DnsIdle

\* Steps 3 to 5 of find_email follow the await of the scraper (beacon.py:83).
ScrapeIsOver == scr_pc \in {"returned", "raised"}

CandidateLoop ==
    /\ ScrapeIsOver
    /\ \/ Assess(1)
       \/ Adjust(1)
       \/ NextCandidate(1)

Verification ==
    /\ ScrapeIsOver
    /\ \E k \in CandidateNos :
          \/ Resolve(1, k)
          \/ OpenDialog(1, k)
          \/ CloseDialog(1, k)
          \/ RetrySleepOver(1, k)

NextTermination == VisitPage \/ ReturnEmails \/ CandidateLoop \/ Verification

SpecTermination == InitTermination /\ [][NextTermination]_vars

\* Every awaited network operation and sleep returns or times out, and the event loop
\* resumes the coroutine: a step that is possible is eventually taken.
FairTermination == SpecTermination /\ WF_vars(NextTermination)

(***************************************************************************)
(* Properties of verify_email_with_retries (SpecSmtp)                      *)
(***************************************************************************)

CountEvents(kind) == Cardinality({i \in 1..Len(events) : events[i].ev = kind})

\* C1: one call of verify_email_with_retries makes at most
\* max_verification_attempts calls of _verify_single_attempt.
C1_RetryCap == CountEvents("attempt") <= max_verification_attempts

\* The whole budget was used: the last permitted attempt has run.
C1_Witness == CountEvents("attempt") = max_verification_attempts /\ vpc = "returned"

\* The latest attempt sent the catch-all sample RCPT and the server accepted it with 2xx.
SampleAccepted2xx ==
    \E i \in 1..Len(smtp_log) :
        /\ smtp_log[i].cmd = "RCPT TO" /\ smtp_log[i].to = "random"
        /\ smtp_log[i].exc = "none"
        /\ 200 <= smtp_log[i].code /\ smtp_log[i].code < 300

\* C2: whenever the catch-all sample RCPT is accepted with 2xx, the attempt's verdict is
\* inconclusive with is_catch_all = true, and the call does not return verified from it.
C2_CatchAllNeverVerified ==
    SampleAccepted2xx =>
        /\ last_result = "None"
        /\ is_catch_all = TRUE
        /\ ~ (ret.raised = "none" /\ ret.status = "True")

\* C3: the only commands an attempt sends are EHLO, MAIL FROM, RCPT TO and QUIT; DATA is
\* never sent, whatever the server replies.
C3_NoData ==
    \A i \in 1..Len(smtp_log) : smtp_log[i].cmd \in {"EHLO", "MAIL FROM", "RCPT TO", "QUIT"}

\* A full dialog: both RCPTs answered and the connection closed with QUIT.
C3_Witness ==
    /\ Len(smtp_log) = 5
    /\ smtp_log[4].to = "random"
    /\ smtp_log[5].cmd = "QUIT"

\* The call's DNS lookup ended in one of the DNS errors.
DnsLookupFailed ==
    \E i \in 1..Len(events) : events[i].ev = "dns" /\ events[i].outcome \in DnsErrors

\* C4: when resolving the mail server fails with any DNS error, the call opens no SMTP
\* connection, raises nothing, and returns
\* (inconclusive, "SMTP check skipped (DNS lookup failed)", is_catch_all = false).
C4_DnsFailureIsSkip ==
    DnsLookupFailed =>
        /\ CountEvents("connect") = 0
        /\ vpc = "returned"
        /\ ret = Returned("None", "SMTP check skipped (DNS lookup failed)", FALSE)

(***************************************************************************)
(* Properties of find_email (Spec)                                         *)
(***************************************************************************)

Emails(list) == {list[i].email : i \in 1..Len(list)}
NoRepeats(list) == \A i, j \in 1..Len(list) : list[i] = list[j] => i = j
DomainOf(e) == SplitRest(e)

\* C5: when the DNS lookup fails in every verification of a discovery, the result still
\* holds the pattern candidates with their pattern-only scores, and methods_used does
\* not contain "smtp_verification".
C5_DnsFailureLeavesNoSmtpMethod ==
    (pc = "done" /\ ~ dns_resolved)
        => /\ "smtp_verification" \notin SeqToSet(results.methods_used)
           /\ \A i \in 1..Len(results.found_emails) :
                results.found_emails[i].verification_status = "None"

\* C6: every record find_email keeps or returns has 1 <= confidence <= 10.
C6_ConfidenceInRange ==
    /\ \A i \in 1..Len(verified_emails_data) :
         verified_emails_data[i].confidence \in 1..10
    /\ \A i \in 1..Len(results.found_emails) :
         results.found_emails[i].confidence \in 1..10

\* C6 witness: an address that is both a pattern and scraped (base 9) was verified and
\* is returned with confidence 10, and a probed address with final confidence 0 is not
\* among the records.
C6_Witness ==
    /\ pc = "done"
    /\ \E i \in 1..Len(results.found_emails) :
         /\ results.found_emails[i].confidence = 10
         /\ results.found_emails[i].verification_status = "True"
         /\ results.found_emails[i].email \in SeqToSet(generated_patterns)
         /\ results.found_emails[i].email \in SeqToSet(scraped_emails)
    /\ \E e \in SeqToSet(probed) : e \notin Emails(results.found_emails)

\* C7: if most_likely_email is set it is the email of a record of found_emails and
\* confidence_score is that record's confidence; if it is not set, confidence_score is 0.
C7_MostLikelyIsAFoundRecord ==
    IF results.most_likely_email # None
    THEN \E i \in 1..Len(results.found_emails) :
           /\ results.found_emails[i].email = results.most_likely_email
           /\ results.found_emails[i].confidence = results.confidence_score
    ELSE results.confidence_score = 0

\* C7 witness: a finished discovery that selected a record other than the first.
C7_Witness ==
    /\ pc = "done"
    /\ results.most_likely_email # None
    /\ results.found_emails[1].email # results.most_likely_email
    /\ results.found_emails[1].confidence # results.confidence_score

\* The raw inputs of add_candidate, in the order of the calls.
CandidateInputs ==
    Partition(generated_patterns, first_lower, last_lower, TRUE)
    \o Partition(scraped_emails, first_lower, last_lower, TRUE)
    \o Partition(generated_patterns, first_lower, last_lower, FALSE)
    \o Partition(scraped_emails, first_lower, last_lower, FALSE)
LoweredInputs == [k \in 1..Len(CandidateInputs) |-> Lower(CandidateInputs[k])]

\* C8: the candidate list has no two entries equal up to case and, as assembled (it is
\* not modified afterwards), keeps the order of first occurrences; no address is
\* verified twice or recorded twice.
C8_NoDuplicateCandidates ==
    /\ NoRepeats([i \in 1..Len(all_candidates) |-> Lower(all_candidates[i])])
    /\ (pc = "loop" /\ idx = 1) =>
         LET lowered == LoweredInputs
             first_occurrence ==
                 [i \in 1..Len(all_candidates) |->
                    Min({k \in 1..Len(lowered) : lowered[k] = all_candidates[i]})]
         IN /\ SeqToSet(all_candidates) = SeqToSet(lowered)
            /\ \A i \in 1..(Len(all_candidates) - 1) :
                 first_occurrence[i] < first_occurrence[i + 1]
    /\ NoRepeats(probed)
    /\ NoRepeats([i \in 1..Len(verified_emails_data) |-> verified_emails_data[i].email])
    /\ NoRepeats([i \in 1..Len(results.found_emails) |-> results.found_emails[i].email])

\* C8 witness: a pattern and a scraped address differed only in case, and the discovery
\* finished with that address recorded.
C8_Witness ==
    /\ pc = "done"
    /\ LET inputs == CandidateInputs
       IN \E k, l \in 1..Len(inputs) :
            /\ inputs[k] # inputs[l]
            /\ Lower(inputs[k]) = Lower(inputs[l])
            /\ Lower(inputs[k]) \in Emails(results.found_emails)

OffDomainOnlyIfScrapedGeneric(e) ==
    DomainOf(e) # contact.domain => (e \in SeqToSet(scraped_emails) /\ is_generic_prefix(e))

\* C9: an address whose domain part is not the primary domain is recorded or selected
\* only if it was scraped and its local part is a generic prefix.
C9_DomainFilter ==
    /\ \A e \in Emails(verified_emails_data) \cup Emails(results.found_emails) :
         OffDomainOnlyIfScrapedGeneric(e)
    /\ results.most_likely_email # None =>
         OffDomainOnlyIfScrapedGeneric(results.most_likely_email)

\* C9 witness: a finished discovery that returned a scraped generic address of another
\* domain and left out a scraped candidate whose domain part is not the primary domain
\* and whose local part is not generic.
C9_Witness ==
    /\ pc = "done"
    /\ \E e \in Emails(results.found_emails) : DomainOf(e) # contact.domain
    /\ \E e \in SeqToSet(scraped_emails) :
         /\ DomainOf(e) # contact.domain
         /\ ~ is_generic_prefix(e)
         /\ e \in SeqToSet(all_candidates)
         /\ e \notin Emails(results.found_emails)

QualifiedNonGeneric(found) ==
    {i \in 1..Len(found) : ~ found[i].is_generic /\ found[i].confidence >= confidence_threshold}

\* C10: when some non-generic record has confidence >= confidence_threshold,
\* most_likely_email is the first such record of the ranking, whatever generic record
\* is ranked above it.
C10_NonGenericBeatsGeneric ==
    (pc = "done" /\ QualifiedNonGeneric(results.found_emails) # {})
        => results.most_likely_email =
               results.found_emails[Min(QualifiedNonGeneric(results.found_emails))].email

\* C10 witness: a generic record with strictly higher confidence is ranked first and a
\* non-generic record is selected.
C10_Witness ==
    /\ pc = "done"
    /\ QualifiedNonGeneric(results.found_emails) # {}
    /\ results.found_emails[1].is_generic
    /\ results.found_emails[1].confidence > results.confidence_score
    /\ results.most_likely_email # None
    /\ results.most_likely_email # results.found_emails[1].email

RecordOf(e) ==
    CHOOSE r \in SeqToSet(results.found_emails) : r.email = e

\* C11: a generic address is selected only if no non-generic record reaches
\* confidence_threshold, it is the first record of the ranking and its confidence
\* reaches both confidence_threshold and generic_confidence_threshold; when neither
\* selection rule applies, most_likely_email is empty.
C11_GenericOnlyAsTopAboveBothThresholds ==
    pc = "done" =>
        LET found == results.found_emails
            neither == /\ QualifiedNonGeneric(found) = {}
                       /\ \/ found = <<>>
                          \/ found[1].confidence < confidence_threshold
                          \/ (found[1].is_generic
                              /\ found[1].confidence < generic_confidence_threshold)
        IN /\ (results.most_likely_email # None /\ RecordOf(results.most_likely_email).is_generic)
                => /\ QualifiedNonGeneric(found) = {}
                   /\ found[1].email = results.most_likely_email
                   /\ found[1].confidence >= confidence_threshold
                   /\ found[1].confidence >= generic_confidence_threshold
           /\ neither => results.most_likely_email = None

\* C11 witness: a finished discovery that selected a generic address while non-generic
\* records (below the threshold) were returned too.
C11_Witness ==
    /\ pc = "done"
    /\ results.most_likely_email # None
    /\ RecordOf(results.most_likely_email).is_generic
    /\ \E i \in 1..Len(results.found_emails) : ~ results.found_emails[i].is_generic

PositionIn(list, e) == CHOOSE i \in 1..Len(list) : list[i] = e

InOrder(a, b) ==
    \/ a.confidence > b.confidence
    \/ a.confidence = b.confidence /\ ~ a.is_generic /\ b.is_generic
    \/ /\ a.confidence = b.confidence
       /\ a.is_generic = b.is_generic
       /\ (a.source = "scraped" \/ b.source # "scraped")

\* C12: found_emails is returned sorted by (confidence descending, non-generic before
\* generic, scraped before pattern): any two adjacent records are in that order.
C12_FoundEmailsSorted ==
    pc = "done" =>
        \A i \in 1..(Len(results.found_emails) - 1) :
            InOrder(results.found_emails[i], results.found_emails[i + 1])

\* C12 witness: a returned list where a tie in confidence is decided by genericity and
\* two records are returned in the reverse of the order in which they were assessed.
C12_Witness ==
    /\ pc = "done"
    /\ \E i \in 1..(Len(results.found_emails) - 1) :
         LET a == results.found_emails[i]
             b == results.found_emails[i + 1]
         IN /\ a.confidence = b.confidence
            /\ ~ a.is_generic /\ b.is_generic
            /\ PositionIn(all_candidates, a.email) > PositionIn(all_candidates, b.email)

\* The candidates the loop scores: those that pass the checks of lines 152-165.
Assessed(e) ==
    /\ email_regex_match(e)
    /\ ~ SkipsDomain(SplitRest(e) = contact.domain, e \in SeqToSet(scraped_emails),
                     is_generic_prefix(e))

\* The confidence of a candidate when the verification decision is taken (line 195).
ConfidenceBeforeVerification(e) ==
    LET name_in_email == Contains(first_lower, SplitFirst(e))
                         \/ Contains(last_lower, SplitFirst(e))
    IN GenericPenalty(BaseConfidence(e \in SeqToSet(generated_patterns),
                                     e \in SeqToSet(scraped_emails), name_in_email,
                                     SplitRest(e) = contact.domain),
                      is_generic_prefix(e), name_in_email)

\* find_email has returned or is at a step of the loop over the candidates: at a
\* candidate to assess, at the sleep after a verification, or past the last candidate,
\* where the result is built.
Proceeds ==
    \/ pc = "done"
    \/ pc = "sleep" /\ idx \in 1..Len(all_candidates)
    \/ pc = "loop" /\ idx \in 1..(Len(all_candidates) + 1)

SmtpErrorMessages == {"SMTP Error", "Unexpected SMTP Error"}

C13_RaisingConfidenceNeverDemotes ==
    raised # 0 =>
        PositionIn(EmailsOf(ranking_after), survivors[raised].email)
            <= PositionIn(EmailsOf(ranking_before), survivors[raised].email)

\* C13 witness: the raised record overtook a record and ties another in confidence.
C13_Witness ==
    /\ raised # 0
    /\ PositionIn(EmailsOf(ranking_after), survivors[raised].email)
           < PositionIn(EmailsOf(ranking_before), survivors[raised].email)
    /\ \E i \in 1..Len(ranking_after) :
         /\ ranking_after[i].email # survivors[raised].email
         /\ ranking_after[i].confidence
                = ranking_after[PositionIn(EmailsOf(ranking_after), survivors[raised].email)].confidence

(***************************************************************************)
(* Properties of the scoring (SpecScore)                                   *)
(***************************************************************************)

\* The confidence before SMTP of a candidate with the same flags, were it not generic.
ConfidenceIfNotGeneric ==
    GenericPenalty(BaseConfidence(flags.is_pattern, flags.is_scraped, flags.name_in_email,
                                  flags.matches_primary_domain),
                   FALSE, flags.name_in_email)

\* C14: a generic candidate with the name in its local part that is both a pattern and
\* scraped has a confidence before SMTP strictly below that of the same flags without
\* genericity; the generic penalty never increases the base confidence and never takes
\* a positive base confidence below 1.
C14_GenericPenalty ==
    score_pc \in {"penalized", "final", "recorded"} =>
        /\ (flags.name_in_email /\ flags.is_pattern /\ flags.is_scraped /\ flags.is_generic)
               => c_penalized < ConfidenceIfNotGeneric
        /\ c_penalized <= c_base
        /\ c_base > 0 => c_penalized >= 1

\* C14 witness: the penalty of 5 was applied to a generic candidate with the name in its
\* local part that is both a pattern and scraped (base 9, confidence 4).
C14_Witness ==
    /\ score_pc = "penalized"
    /\ flags.name_in_email /\ flags.is_pattern /\ flags.is_scraped /\ flags.is_generic
    /\ c_base = 9
    /\ c_penalized = 4

(***************************************************************************)
(* Properties of process_record and find_single_email (SpecRecord)         *)
(***************************************************************************)

IsSuccess(r) ==
    /\ r.email_discovery_results # NoResults
    /\ ~ r.email_finding_skipped
    /\ r.email_finding_error = "None"
IsSkipped(r) ==
    /\ r.email_finding_skipped
    /\ r.email_finding_reason \notin {"None", ""}
    /\ r.email_discovery_results = NoResults
IsError(r) ==
    /\ r.email_finding_error # "None"
    /\ r.email_discovery_results = NoResults
    /\ ~ r.email_finding_skipped

\* C17: process_record raises nothing and returns one result: skipped (flag, reason, no
\* discovery results) when name derivation or domain/URL normalization fails, success
\* with the discovery results when find_email returns, error (error field, no discovery
\* results) when find_email raises.
C17_ResultShapeFollowsCause ==
    rec_pc \in {"returned", "responded"} =>
        /\ rec_return.raised = "none"
        /\ IF validated.raised # "none" THEN IsSkipped(rec_return.value)
           ELSE IF discovery.raised = "none" THEN IsSuccess(rec_return.value)
           ELSE IsError(rec_return.value)

\* C18: a find-single request with valid names whose domain does not exist in DNS is
\* answered with status 404, not with a 200 result.
C18_NxDomainIs404 ==
    (rec_pc = "responded" /\ validated.raised = "none" /\ ~ dns_exists)
        => http_response.status = 404

(***************************************************************************)
(* Properties of find_emails_batch (SpecBatch)                             *)
(***************************************************************************)

\* C15: a batch of N contacts is answered with exactly N results and result i carries
\* contact i, whichever contacts were skipped, failed or succeeded; an empty batch is
\* answered with the empty list.
C15_OneResultPerContactInOrder ==
    batch_pc = "responded" =>
        /\ Len(batch_response) = Len(request)
        /\ \A i \in 1..Len(request) : batch_response[i].contact_input = request[i]
        /\ request = <<>> => batch_response = <<>>

C15_Witness ==
    /\ batch_pc = "responded"
    /\ Len(request) = 3
    /\ IsSkipped(batch_response[1])
    /\ IsError(batch_response[2])
    /\ IsSuccess(batch_response[3])

\* C16: at no moment are more than max_concurrency contacts of a batch being processed.
C16_AtMostMaxConcurrencyInFlight == Cardinality(Running) <= max_concurrency

(***************************************************************************)
(* Properties of the cancellation of a contact's task (SpecCancel)         *)
(***************************************************************************)

\* C21: once the caller has cancelled the processing of a contact, no error handler
\* absorbs the cancellation: the task ends cancelled, no further network operation is
\* started for the contact, and no result with discovery data is produced for it.
C21_CancellationPropagates ==
    cancel_requested =>
        /\ task_pc = "cancelled"
        /\ ops_after_cancel = <<>>
        /\ task_outcome # "EmailResult"

(***************************************************************************)
(* Properties of Settings (SpecSettings)                                   *)
(***************************************************************************)

\* C22: a constructed Settings has
\* 0 <= confidence_threshold <= generic_confidence_threshold <= 10,
\* min_sleep <= max_sleep with sleep_between_requests = (min_sleep, max_sleep),
\* a non-empty dns_servers, and max_concurrency >= 1.
C22_ValidatedSettingsInRange ==
    cfg_pc = "validated" =>
        /\ 0 <= values.confidence_threshold
        /\ values.confidence_threshold <= values.generic_confidence_threshold
        /\ values.generic_confidence_threshold <= 10
        /\ values.min_sleep_between_requests <= values.max_sleep_between_requests
        /\ values.sleep_between_requests =
               <<values.min_sleep_between_requests, values.max_sleep_between_requests>>
        /\ values.dns_servers # <<>>
        /\ values.max_concurrency >= 1

(***************************************************************************)
(* Properties of the output envelope (SpecEnvelope)                        *)
(***************************************************************************)

SameEmails(a, b) ==
    /\ Len(a) = Len(b)
    /\ Emails(a) = Emails(b)

\* C23: found_emails holds every candidate stored with a final confidence above zero,
\* never a truncation of them, and the envelope's email_alternatives has at most
\* max_alternatives entries, whatever value is configured.
C23_AlternativesCappedByMaxAlternatives ==
    env_pc = "done" =>
        /\ SameEmails(discovery_results.found_emails, discovery_results.verified_emails_data)
        /\ Len(envelope.email_alternatives) <= configured_max_alternatives

(***************************************************************************)
(* Properties of one SMTP attempt and of the retry loop (SpecSmtp)         *)
(***************************************************************************)

Attempted == attempt_result # NoAttempt
Is2xx(code) == 200 <= code /\ code < 300
Inconclusive(result) == result.raised = "none" /\ result.exists = "None"

\* The position of the catch-all sample RCPT in the latest attempt's commands (0: not sent).
SamplePosition ==
    LET I == {i \in 1..Len(smtp_log) : smtp_log[i].cmd = "RCPT TO" /\ smtp_log[i].to = "random"}
    IN IF I = {} THEN 0 ELSE Min(I)

\* C24: the catch-all sample RCPT is sent only after the RCPT for the real candidate was
\* answered, and only when that answer was a 2xx reply; after a 3xx, 4xx or 5xx answer no
\* sample is sent.
C24_SampleOnlyAfter2xx ==
    SamplePosition # 0 =>
        /\ SamplePosition > 1
        /\ smtp_log[SamplePosition - 1].cmd = "RCPT TO"
        /\ smtp_log[SamplePosition - 1].to = "target"
        /\ smtp_log[SamplePosition - 1].exc = "none"
        /\ Is2xx(smtp_log[SamplePosition - 1].code)

\* The server rejected the sample RCPT: a reply of 4xx/5xx, returned or raised as
\* SMTPResponseException.
SampleRejected ==
    /\ SamplePosition # 0
    /\ answers.sample.exc \in {"none", "SMTPResponseException"}
    /\ answers.sample.code >= 400

\* C25: an attempt yields verified only if the real RCPT was answered 2xx and the sample
\* RCPT was sent and rejected by the server; a sample that ended without an answer
\* (timeout, dropped connection, other error) does not give verified.
C25_VerifiedNeedsRejectedSample ==
    (attempt_result.raised = "none" /\ attempt_result.exists = "True") =>
        /\ answers.rcpt.exc = "none"
        /\ Is2xx(answers.rcpt.code)
        /\ SampleRejected

\* The latest attempt ended the loop: a conclusive verdict or a non-retriable one.
Stops(result) ==
    /\ result.raised = "none"
    /\ result.exists # "None" \/ ~ result.should_retry

\* C26: after an attempt with a conclusive or a non-retriable inconclusive verdict there
\* is no further attempt and no sleep, and the call returns that attempt's status,
\* message and is_catch_all; the loop goes on only after a retriable inconclusive verdict.
C26_LoopStopsOnFinalVerdict ==
    /\ (Attempted /\ Stops(attempt_result)) =>
          /\ vpc = "returned"
          /\ events[Len(events)].ev = "attempt"
          /\ ret = Returned(attempt_result.exists, attempt_result.message,
                            attempt_result.is_catch_all)
    /\ (Attempted /\ vpc \in {"sleep", "attempt"}) =>
          /\ Inconclusive(attempt_result)
          /\ attempt_result.should_retry

\* The first attempt was non-retriable while another attempt was still permitted.
C26_Witness ==
    /\ CountEvents("attempt") = 1
    /\ max_verification_attempts > 1
    /\ Inconclusive(attempt_result)
    /\ ~ attempt_result.should_retry
    /\ vpc = "returned"

\* connect() failed because the connection timed out or was refused.
ConnectTimedOutOrRefused ==
    \/ answers.connect.exc = "TimeoutError"
    \/ /\ answers.connect.exc = "SMTPConnectError"
       /\ LowerHas(answers.connect.msg, "timed out")
            \/ LowerHas(answers.connect.msg, "connection refused")

\* connect() failed with another connection error.
OtherConnectionError ==
    /\ answers.connect.exc \in {"SMTPConnectError", "OSError"}
    /\ ~ ConnectTimedOutOrRefused

\* C27: a connection that times out or is refused gives inconclusive, not retriable, and
\* so exactly one attempt for the candidate; any other connection error gives
\* inconclusive, retriable.
C27_BlockedPortIsNotRetried ==
    /\ ConnectTimedOutOrRefused =>
          /\ Inconclusive(attempt_result)
          /\ ~ attempt_result.should_retry
          /\ CountEvents("attempt") = 1
          /\ vpc = "returned"
    /\ OtherConnectionError =>
          /\ Inconclusive(attempt_result)
          /\ attempt_result.should_retry

\* The server answered the real RCPT with a reply code, returned by rcpt() or raised by
\* it as SMTPResponseException.
RcptAnswered == answers.rcpt.exc \in {"none", "SMTPResponseException"}

\* C28: by the reply code to the real RCPT: 3xx and 4xx give inconclusive, retriable;
\* every 5xx gives rejected, conclusive, and the loop returns rejected without retrying.
C28_VerdictByRcptCode ==
    RcptAnswered =>
        /\ (300 <= answers.rcpt.code /\ answers.rcpt.code < 500) =>
              /\ Inconclusive(attempt_result)
              /\ attempt_result.should_retry
        /\ answers.rcpt.code >= 500 =>
              /\ attempt_result.raised = "none"
              /\ attempt_result.exists = "False"
              /\ ~ attempt_result.should_retry
              /\ vpc = "returned"
              /\ ret.status = "False"

\* The server answered MAIL FROM with a code >= 400 (returned, or raised as
\* SMTPResponseException).
MailFromRefused ==
    /\ answers.mail.exc \in {"none", "SMTPResponseException"}
    /\ answers.mail.code >= 400

StarttlsIndicated ==
    \/ LowerHas(answers.mail.msg, "starttls")
    \/ answers.mail.code = 530 /\ LowerHas(answers.mail.msg, "5.7.0")

\* C29: after a MAIL FROM answered with a code >= 400 the attempt sends no RCPT TO and its
\* verdict is inconclusive; it is retriable when the reply indicates that STARTTLS is
\* required.
C29_MailFromRefusalIsInconclusive ==
    MailFromRefused =>
        /\ \A i \in 1..Len(smtp_log) : smtp_log[i].cmd # "RCPT TO"
        /\ Inconclusive(attempt_result)
        /\ StarttlsIndicated => attempt_result.should_retry

\* MAIL FROM was refused with 530 5.7.0 and the loop went on to its sleep.
C29_Witness ==
    /\ answers.mail = Reply(530, "5.7.0 Authentication required")
    /\ smtp_log # <<>>
    /\ smtp_log[Len(smtp_log)].cmd \in {"MAIL FROM", "QUIT"}
    /\ vpc = "sleep"

\* C30: an attempt whose connection is still open at the end sends QUIT as its last
\* command, once, on every path; an error or a timeout of QUIT leaves the verdict of the
\* dialog as it was and raises nothing to the retry loop.
C30_QuitLastAndHarmless ==
    (Attempted /\ answers.is_connected) =>
        /\ smtp_log # <<>>
        /\ smtp_log[Len(smtp_log)].cmd = "QUIT"
        /\ \A i \in 1..(Len(smtp_log) - 1) : smtp_log[i].cmd # "QUIT"
        /\ attempt_result = AttemptVerdict(answers)
        /\ attempt_result.raised \in {"none", "SmtpError"}

\* QUIT timed out after a dialog that verified the address.
C30_Witness ==
    /\ answers.is_connected
    /\ answers.quit = "TimeoutError"
    /\ attempt_result.exists = "True"
    /\ smtp_log[Len(smtp_log)].exc = "TimeoutError"

\* The envelope reports a selected email.
HasSelectedEmail == env_pc = "done" /\ envelope.email # None

\* C40: the envelope's email_alternatives never holds the address reported as the
\* selected email; the alternatives are the other found emails, in ranked order.
C40_SelectedEmailNotAmongAlternatives ==
    HasSelectedEmail =>
        \A i \in 1..Len(envelope.email_alternatives) :
            envelope.email_alternatives[i] # envelope.email

(***************************************************************************)
(* Properties of the verification adjustment (SpecScore)                   *)
(***************************************************************************)

\* The candidate was handed to verify_email_with_retries and the call returned a verdict.
Probed == smtp_outcome # NoVerification
VerdictIs(status) == Probed /\ smtp_outcome.raised = "none" /\ smtp_outcome.status = status

\* C31: with c the confidence before SMTP: verified gives min(10, c + 5); inconclusive
\* gives c + 1 (at most 10) without catch-all and c with catch-all suspected; rejected
\* gives 0 and the candidate is not emitted; a candidate that is not probed keeps c.
C31_VerificationAdjustment ==
    score_pc \in {"final", "recorded"} =>
        /\ VerdictIs("True") => c_final = MinOf(10, c_penalized + 5)
        /\ (VerdictIs("None") /\ ~ smtp_outcome.is_catch_all)
              => c_final = MinOf(10, c_penalized + 1)
        /\ (VerdictIs("None") /\ smtp_outcome.is_catch_all) => c_final = c_penalized
        /\ VerdictIs("False") => c_final = 0 /\ (score_pc = "recorded" => ~ emitted)
        /\ ~ Probed => c_final = c_penalized

\* A catch-all verdict left the confidence of an emitted candidate as it was.
C31_Witness ==
    /\ score_pc = "recorded"
    /\ VerdictIs("None")
    /\ smtp_outcome.is_catch_all
    /\ emitted
    /\ c_final = c_penalized

\* The second disjunct of should_verify_smtp (line 195).
ScrapedWithName == flags.is_scraped /\ flags.name_in_email /\ c_penalized > 1

\* C36: the decision to verify is the same as "confidence after the generic penalty is
\* at least 3": for no reachable combination of the flags does the disjunct
\* (is_scraped and name_in_email and confidence > 1) hold with a confidence below 3.
C36_VerifyIffConfidenceAtLeast3 ==
    score_pc \in {"penalized", "final", "recorded"} =>
        /\ ~ (ScrapedWithName /\ c_penalized < 3)
        /\ should_verify_smtp(c_penalized, flags.is_scraped, flags.name_in_email)
              <=> c_penalized >= 3

\* A scraped generic candidate that holds the name: penalized to 1 and not verified.
C36_Witness ==
    /\ score_pc = "final"
    /\ flags.is_scraped /\ flags.name_in_email /\ flags.is_generic
    /\ c_penalized = 1
    /\ ~ Probed

(***************************************************************************)
(* Properties of find_email on candidates of other domains (Spec)          *)
(***************************************************************************)

\* The stored candidates whose domain part is not the domain of the call.
CrossDomainFound ==
    {i \in 1..Len(verified_emails_data) :
        DomainOf(verified_emails_data[i].email) # contact.domain}

\* C37: a candidate on another domain than the one of the call (kept only when scraped
\* and generic) is stored with a confidence of at most 2 and is never handed to the SMTP
\* verifier; every address that is verified, and so every DNS query and SMTP dialog, is
\* for the domain of the call.
C37_OnlyPrimaryDomainIsProbed ==
    /\ \A i \in CrossDomainFound :
          /\ verified_emails_data[i].confidence <= 2
          /\ verified_emails_data[i].source = "scraped"
          /\ verified_emails_data[i].is_generic
          /\ verified_emails_data[i].email \notin SeqToSet(probed)
    /\ \A i \in 1..Len(probed) :
          /\ DomainOf(probed[i]) = contact.domain
          /\ SplitLast(probed[i]) = contact.domain

\* A discovery that stored a role address of another domain and verified one of its own.
C37_Witness ==
    /\ pc = "done"
    /\ CrossDomainFound # {}
    /\ probed # <<>>

(***************************************************************************)
(* Properties of the catch-all flag across attempts (SpecSmtp)             *)
(***************************************************************************)

\* Some attempt of the call saw the server accept the catch-all sample.
CatchAllObserved ==
    \E i \in 1..Len(events) : events[i].ev = "attempt" /\ events[i].is_catch_all

\* C38: when some attempt of the retry loop observed catch-all acceptance, the call
\* returns is_catch_all = true, whatever the later attempts gave, and so an inconclusive
\* candidate of that domain gets no +1 on its confidence.
C38_CatchAllFlagIsSticky ==
    (vpc = "returned" /\ CatchAllObserved) =>
        /\ ret.is_catch_all
        /\ ret.status = "None" => AfterVerification(3, ret).confidence = 3

(***************************************************************************)
(* Properties of resolve_mail_server (SpecDns)                             *)
(***************************************************************************)

DnsEnded == dns_pc \in {"returned", "raised"}
AQueried == \E i \in 1..Len(dns_queries) : dns_queries[i] = "A"

\* The MX query reported that there are no records.
MxNoRecords ==
    \/ mx_answer.error = "NoDnsRecordsError"
    \/ mx_answer.error = "none" /\ mx_answer.records = <<>>

\* The record with the lowest preference, the first of them in the answer.
LowestPreference ==
    LET recs == mx_answer.records
        i == Min({k \in 1..Len(recs) :
                    \A j \in 1..Len(recs) : recs[k].priority <= recs[j].priority})
    IN recs[i]

MxPresent == mx_answer.error = "none" /\ mx_answer.records # <<>>
EmptyExchange == MxPresent /\ RStripDots(LowestPreference.host) = <<>>

\* C34: the A records are queried exactly when the MX query reports no records, and the
\* call then returns (first A address, 65535); after NXDOMAIN, a timeout or another DNS
\* error on the MX query there is no A query and the call fails with that error; when MX
\* records exist, the one with the lowest preference is returned, trailing dot stripped.
C34_FallbackExactlyOnNoData ==
    DnsEnded =>
        /\ AQueried <=> MxNoRecords
        /\ (MxNoRecords /\ a_answer.error = "none" /\ a_answer.records # <<>>)
              => dns_return = MailServer(a_answer.records[1].host, 65535)
        /\ mx_answer.error \in {"NxDomainError", "DnsTimeoutError", "DnsError"}
              => dns_return = DnsRaise(mx_answer.error)
        /\ (MxPresent /\ ~ EmptyExchange)
              => dns_return = MailServer(RStripDots(LowestPreference.host),
                                         LowestPreference.priority)

\* C35: when the MX query returns records and the exchange of the record with the lowest
\* preference is empty, the call fails with NoDnsRecords: no mail server is returned and
\* no A query is made.
C35_EmptyExchangeFails ==
    (DnsEnded /\ EmptyExchange) =>
        /\ dns_return = DnsRaise("NoDnsRecordsError")
        /\ ~ AQueried

(***************************************************************************)
(* Properties of scrape_website_for_emails (SpecScraper)                   *)
(***************************************************************************)

\* How often the URL was handed to _fetch_page.
TimesFetched(url) == Cardinality({i \in 1..Len(fetch_log) : fetch_log[i].url = url})

\* The page was fetched and its HTML parsed.
Parsed(entry) == entry.response.kind = "html"

\* `if not any_page_successful and urls_to_visit`: the scrape is reported as failed.
ScrapeReportedFailed == successful_pages = 0 /\ urls_to_visit # <<>>

OpenDialogs(i) == {k \in CandidateNos : discoveries[i].verif[k] = "dialog"}

\* The verification of the candidate is under way: resolving, in an attempt or
\* sleeping between attempts.
Verifying(i, k) == discoveries[i].verif[k] \in {"resolve", "attempt", "dialog", "retry_sleep"}

\* C32: within one discovery the verification of a candidate is over and its
\* adjustment applied before the next candidate is assessed, so a discovery never has
\* two SMTP dialogs open, whatever the other discoveries do.
C32_OneDialogPerDiscovery ==
    \A i \in Discoveries :
        /\ Cardinality(OpenDialogs(i)) <= 1
        /\ \A k \in discoveries[i].assessed :
              \A j \in 1..(k - 1) :
                  /\ ~ Verifying(i, j)
                  /\ j \in discoveries[i].adjusted

\* Both discoveries have a dialog open at the same time, one of them for its second
\* candidate after its first candidate was verified.
C32_Witness ==
    /\ OpenDialogs(1) = {2}
    /\ OpenDialogs(2) = {1}
    /\ discoveries[1].verif[1] = "returned"
    /\ discoveries[1].attempt[2] = 2

(***************************************************************************)
(* Properties of one find_email under fair scheduling (FairTermination)    *)
(***************************************************************************)

RECURSIVE SumTo(_, _)
SumTo(f, n) == IF n = 0 THEN 0 ELSE f[n] + SumTo(f, n - 1)

\* SMTP attempts made so far for all candidates of the discovery.
TotalAttempts == SumTo(discoveries[1].attempt, NumCandidates)

\* find_email has left its candidate loop: what remains is the ranking and the return.
FindEmailReturns == discoveries[1].pc = "done"

FetchesBounded ==
    /\ Len(fetch_log) <= 1 + Cardinality(PageUrls)
    /\ \A i \in 1..Len(fetch_log) : TimesFetched(fetch_log[i].url) = 1

AttemptsBounded ==
    /\ \A k \in CandidateNos : discoveries[1].attempt[k] <= max_verification_attempts
    /\ TotalAttempts <= NumCandidates * max_verification_attempts

====
